---------------------------- MODULE Spec2Model ----------------------------
(***************************************************************************)
(* Verification model of the party XP calculator.                          *)
(*                                                                         *)
(* The repository holds four builds of the same calculator:                *)
(*   HomeA    src/client/src/pages/Home.tsx, lines 1-542 (state-driven     *)
(*            React page, stepped-ratio adjustment)                        *)
(*   HomeB    src/client/src/pages/Home.tsx, lines 543-1454 (form-driven   *)
(*            React page, continuous-ratio adjustment, per-pair flooring)  *)
(*   Part001  src/unnamed/part_001 (form-driven React page with the        *)
(*            remainder step)                                              *)
(*   Angular  src/unnamed/part_002 (XpCalculatorService) and               *)
(*            src/unnamed/part_003 (ExperienceCalculatorComponent)         *)
(*                                                                         *)
(* JavaScript numbers are modelled as exact rationals [n, d] in lowest     *)
(* terms, d > 0; d = 0 encodes the non-finite values a division by zero    *)
(* produces (n = 1: Infinity, n = -1: -Infinity, n = 0: NaN).  The         *)
(* rounding error of IEEE doubles is not modelled: quarter-step levels,    *)
(* their sums, differences and comparisons are exact in doubles, while a   *)
(* product with a ratio such as 1/3 may differ from the double by one ulp  *)
(* (which can move a Math.floor of part_001's per-character sum by 1).     *)
(*                                                                         *)
(* Five specifications share the variables:                                *)
(*   Spec         one form is submitted to one build                       *)
(*   SpecHelpers  the helper functions are applied to pairs of levels      *)
(*   SpecStore    sessions of calculate, save, load, delete, reset and     *)
(*                page reload over localStorage                            *)
(*   SpecForm     sessions of add, remove, edit, reset and load on the     *)
(*                form                                                     *)
(*   SpecShared   two pages of one build save and delete under the same    *)
(*                storage key                                              *)
(* The id of a saved calculation, Date.now().toString(), is modelled by    *)
(* the clock value itself; between two saves the clock advances or gives   *)
(* the same value again.  The display names of the form rows are not       *)
(* modelled in the form.                                                   *)
(***************************************************************************)
EXTENDS Integers, Sequences, FiniteSets, TLC

VARIABLES
    impl,               \* which build is running
    data,               \* the values of the input form at submit time
    characters,         \* working character records (React state `characters`)
    monsters,           \* working monster records (React state `monsters`)
    result,             \* the current CalculationResult, or Null
    characterIn,        \* helper run: the character's hitDice and modifier
    monsterIn,          \* helper run: the monster's hitDice and modifier
    characterHD,        \* helper run: effective hit dice of the character
    monsterHD,          \* helper run: effective hit dice of the monster
    factor,             \* helper run: the adjustment factor last returned
    storage,            \* localStorage under the key 'odnd-xp-calculations'
    savedCalculations,  \* the saved-calculation list the page holds in memory
    mounted,            \* the page has been constructed and its mount effect has run
    thrown,             \* an exception has escaped a handler
    now,                \* Date.now(), in steps of the clock
    op,                 \* history: the handler that ran last, and what it was given or found
    lastSaved,          \* history: what the last saveCalculation was given to save
    memo,               \* history: the input and the result of the first calculation
    peerSavedCalculations,  \* the list a second page on the same store holds in memory
    peerLastSaved       \* history: what the second page's last saveCalculation saved

vars == <<impl, data, characters, monsters, result,
          characterIn, monsterIn, characterHD, monsterHD, factor,
          storage, savedCalculations, mounted, thrown, now, op, lastSaved, memo,
          peerSavedCalculations, peerLastSaved>>

calcVars == <<impl, data, characters, monsters, result>>
helperVars == <<characterIn, monsterIn, characterHD, monsterHD, factor>>
storeVars == <<storage, savedCalculations, mounted, thrown, now>>
historyVars == <<op, lastSaved, memo>>
peerVars == <<peerSavedCalculations, peerLastSaved>>

Impls == {"HomeA", "HomeB", "Part001", "Angular"}

Null == [isNull |-> TRUE]

---------------------------------------------------------------------------
(* Bounds of the model.                                                    *)

MaxChars == 2           \* longest character list submitted
MaxMonsters == 2        \* longest monster-group list submitted
MaxHelperHitDice == 5   \* largest hit dice of a helper run
ModifierSpan == 5       \* helper runs draw modifiers from -ModifierSpan..ModifierSpan
MaxSaves == 2           \* saveCalculation runs at most this often in a session

\* the values the submitted forms are drawn from; a modifier of -5 takes the
\* effective hit dice of a 1 HD entry below zero
CharacterHitDiceValues == {1, 2}
MonsterHitDiceValues == {1}
ModifierValues == {-5, 0, 1}
CountValues == {1, 2}

---------------------------------------------------------------------------
(* JavaScript number arithmetic over exact rationals.                      *)

Abs(x) == IF x < 0 THEN -x ELSE x

Sgn(x) == IF x < 0 THEN -1 ELSE IF x > 0 THEN 1 ELSE 0

RECURSIVE GCD(_, _)
GCD(a, b) == IF b = 0 THEN a ELSE GCD(b, a % b)

Rat(n, d) ==
    IF d = 0 THEN [n |-> Sgn(n), d |-> 0]
    ELSE LET g == GCD(Abs(n), Abs(d))
         IN  [n |-> (Sgn(d) * n) \div g, d |-> Abs(d) \div g]

Num(i) == [n |-> i, d |-> 1]

NaN == [n |-> 0, d |-> 0]

IsFinite(a) == a.d # 0

IsNaN(a) == a.d = 0 /\ a.n = 0

RMul(a, b) == Rat(a.n * b.n, a.d * b.d)

RInv(b) ==
    IF b.d = 0 THEN (IF b.n = 0 THEN NaN ELSE Num(0))
    ELSE IF b.n = 0 THEN [n |-> 1, d |-> 0]
    ELSE Rat(Sgn(b.n) * b.d, Abs(b.n))

RDiv(a, b) == RMul(a, RInv(b))

RAdd(a, b) ==
    IF IsFinite(a) /\ IsFinite(b) THEN Rat(a.n * b.d + b.n * a.d, a.d * b.d)
    ELSE IF IsNaN(a) \/ IsNaN(b) THEN NaN
    ELSE IF ~IsFinite(a) /\ ~IsFinite(b) THEN (IF a.n = b.n THEN a ELSE NaN)
    ELSE IF IsFinite(a) THEN b ELSE a

RNeg(a) == [n |-> -a.n, d |-> a.d]

RSub(a, b) == RAdd(a, RNeg(b))

\* a < b; every comparison with NaN is false
RLt(a, b) ==
    IF IsNaN(a) \/ IsNaN(b) THEN FALSE
    ELSE IF ~IsFinite(a) /\ ~IsFinite(b) THEN a.n < b.n
    ELSE IF ~IsFinite(a) THEN a.n < 0
    ELSE IF ~IsFinite(b) THEN b.n > 0
    ELSE a.n * b.d < b.n * a.d

\* a <= b; every comparison with NaN is false
RLe(a, b) == ~IsNaN(a) /\ ~IsNaN(b) /\ ~RLt(b, a)

\* Math.floor
Floor(a) == IF IsFinite(a) THEN Num(a.n \div a.d) ELSE a

RECURSIVE SumSeq(_)
SumSeq(s) == IF s = <<>> THEN Num(0) ELSE RAdd(SumSeq(SubSeq(s, 1, Len(s) - 1)), s[Len(s)])

\* the JavaScript idiom  v || dflt  on a number
OrDefault(v, dflt) == IF v = 0 THEN dflt ELSE v

---------------------------------------------------------------------------
(* Helper functions of the four builds.                                    *)

BASE_XP_PER_HD == 100

\* the literal 0.25
MODIFIER_FACTOR == Rat(1, 4)

HomeA_calculateEffectiveHitDice(hitDice, modifier) ==
    RAdd(Num(hitDice), RMul(Num(modifier), Rat(1, 4)))

HomeB_calculateEffectiveHitDice(hitDice, modifier) ==
    RAdd(Num(hitDice), RMul(Num(modifier), Rat(1, 4)))

Part001_calculateEffectiveHitDice(hitDice, modifier) ==
    RAdd(Num(hitDice), RMul(Num(modifier), Rat(1, 4)))

\* faulty variant: the modifier counted as a whole hit die
Svc_calculateEffectiveHitDice_wholeDie(hitDice, modifier) ==
    RAdd(Num(hitDice), Num(modifier))

Svc_calculateEffectiveHitDice(hitDice, modifier) ==
    RAdd(Num(hitDice), RMul(Num(modifier), MODIFIER_FACTOR))

\* stepped-ratio scale
HomeA_calculateAdjustmentFactor(partyLevel, monsterLevel) ==
    IF RLe(partyLevel, Num(0)) \/ RLe(monsterLevel, Num(0)) THEN Num(1)
    ELSE IF RLt(monsterLevel, partyLevel)
         THEN LET ratio == RDiv(monsterLevel, partyLevel)
              IN  IF RLt(ratio, Rat(1, 4)) THEN Rat(1, 4)
                  ELSE IF RLt(ratio, Rat(1, 2)) THEN Rat(1, 2)
                  ELSE IF RLt(ratio, Rat(3, 4)) THEN Rat(3, 4)
                  ELSE Num(1)
         ELSE Num(1)

\* faulty variant: the ratio without the cap at 1
HomeB_calculateAdjustmentFactor_uncapped(charHD, monHD) ==
    RDiv(monHD, charHD)

\* continuous ratio
HomeB_calculateAdjustmentFactor(charHD, monHD) ==
    IF RLe(charHD, monHD) THEN Num(1) ELSE RDiv(monHD, charHD)

Part001_calculateAdjustmentFactor(charHD, monHD) ==
    IF RLe(charHD, monHD) THEN Num(1) ELSE RDiv(monHD, charHD)

\* faulty variant: a monster one level below the party is worth a fifth more
Svc_calculateAdjustmentFactor_bonus(partyLevel, monsterLevel) ==
    LET levelDiff == RSub(partyLevel, monsterLevel)
    IN  IF RLe(levelDiff, Num(0)) THEN Num(1)
        ELSE IF levelDiff = Num(1) THEN Rat(12, 10)
        ELSE IF levelDiff = Num(2) THEN Rat(6, 10)
        ELSE IF levelDiff = Num(3) THEN Rat(4, 10)
        ELSE IF RLe(Num(4), levelDiff) THEN Rat(2, 10)
        ELSE Num(1)

\* level-difference scale
Svc_calculateAdjustmentFactor(partyLevel, monsterLevel) ==
    LET levelDiff == RSub(partyLevel, monsterLevel)
    IN  IF RLe(levelDiff, Num(0)) THEN Num(1)
        ELSE IF levelDiff = Num(1) THEN Rat(8, 10)
        ELSE IF levelDiff = Num(2) THEN Rat(6, 10)
        ELSE IF levelDiff = Num(3) THEN Rat(4, 10)
        ELSE IF RLe(Num(4), levelDiff) THEN Rat(2, 10)
        ELSE Num(1)

Part001_calculateTotalXp(mons) ==
    SumSeq([j \in 1..Len(mons) |->
              RMul(RMul(mons[j].effectiveHitDice, Num(mons[j].count)), Num(100))])

---------------------------------------------------------------------------
(* The calculation of each build.                                          *)

\* name: char.name || `Character ${index + 1}` ; the form's name is left empty
DefaultName(kind, index) == <<kind, index>>

\* ---- HomeA: calculateXp --------------------------------------------------

HomeA_calculatedCharacters(chars) ==
    [i \in 1..Len(chars) |->
        [id |-> i - 1,
         hitDice |-> OrDefault(chars[i].hitDice, 1),
         modifier |-> OrDefault(chars[i].modifier, 0),
         effectiveHitDice |-> HomeA_calculateEffectiveHitDice(
                                  OrDefault(chars[i].hitDice, 1),
                                  OrDefault(chars[i].modifier, 0))]]

HomeA_calculatedMonsters(mons) ==
    [j \in 1..Len(mons) |->
        [id |-> j - 1,
         hitDice |-> OrDefault(mons[j].hitDice, 1),
         modifier |-> OrDefault(mons[j].modifier, 0),
         count |-> OrDefault(mons[j].count, 1),
         effectiveHitDice |-> HomeA_calculateEffectiveHitDice(
                                  OrDefault(mons[j].hitDice, 1),
                                  OrDefault(mons[j].modifier, 0))]]

HomeA_newResult(chars, mons) ==
    LET calculatedCharacters == HomeA_calculatedCharacters(chars)
        calculatedMonsters == HomeA_calculatedMonsters(mons)
        totalPartyHitDice ==
            SumSeq([i \in 1..Len(calculatedCharacters) |->
                      calculatedCharacters[i].effectiveHitDice])
        averagePartyLevel == RDiv(totalPartyHitDice, Num(Len(calculatedCharacters)))
        totalMonsterHitDice ==
            SumSeq([j \in 1..Len(calculatedMonsters) |->
                      RMul(calculatedMonsters[j].effectiveHitDice,
                           Num(calculatedMonsters[j].count))])
        monsterCount ==
            SumSeq([j \in 1..Len(calculatedMonsters) |-> Num(calculatedMonsters[j].count)])
        adjustmentFactor ==
            HomeA_calculateAdjustmentFactor(averagePartyLevel,
                                            RDiv(totalMonsterHitDice, monsterCount))
        totalXp == RMul(RMul(totalMonsterHitDice, Num(100)), adjustmentFactor)
        xpPerCharacter == RDiv(totalXp, Num(Len(calculatedCharacters)))
    IN  [totalPartyHitDice |-> totalPartyHitDice,
         totalMonsterHitDice |-> totalMonsterHitDice,
         totalXp |-> totalXp,
         xpPerCharacter |-> xpPerCharacter,
         averagePartyLevel |-> averagePartyLevel,
         adjustmentFactor |-> adjustmentFactor]

\* ---- HomeB: onSubmit -----------------------------------------------------

\* calculatorSchema: both arrays non-empty, hitDice >= 1, count >= 1
HomeB_calculatorSchema(d) ==
    /\ Len(d.characters) >= 1
    /\ Len(d.monsters) >= 1
    /\ \A i \in 1..Len(d.characters) : d.characters[i].hitDice >= 1
    /\ \A j \in 1..Len(d.monsters) : d.monsters[j].hitDice >= 1 /\ d.monsters[j].count >= 1

HomeB_newCharacters(d) ==
    [i \in 1..Len(d.characters) |->
        [id |-> i,
         name |-> DefaultName("Character", i),
         hitDice |-> d.characters[i].hitDice,
         modifier |-> d.characters[i].modifier,
         effectiveHitDice |-> HomeB_calculateEffectiveHitDice(d.characters[i].hitDice,
                                                              d.characters[i].modifier)]]

HomeB_newMonsters(d) ==
    [j \in 1..Len(d.monsters) |->
        [id |-> j,
         name |-> DefaultName("Monster", j),
         hitDice |-> d.monsters[j].hitDice,
         modifier |-> d.monsters[j].modifier,
         count |-> d.monsters[j].count,
         effectiveHitDice |-> HomeB_calculateEffectiveHitDice(d.monsters[j].hitDice,
                                                              d.monsters[j].modifier)]]

HomeB_monsterContributions(char, newCharacters, newMonsters) ==
    [j \in 1..Len(newMonsters) |->
        LET monster == newMonsters[j]
            monsterTotalXp == RMul(RMul(monster.effectiveHitDice, Num(monster.count)), Num(100))
            perCharacterShare == Floor(RDiv(monsterTotalXp, Num(Len(newCharacters))))
            adjustmentFactor == HomeB_calculateAdjustmentFactor(char.effectiveHitDice,
                                                                monster.effectiveHitDice)
            adjustedXp == Floor(RMul(perCharacterShare, adjustmentFactor))
        IN  [monsterId |-> monster.id,
             monsterName |-> monster.name,
             baseXp |-> perCharacterShare,
             adjustmentFactor |-> adjustmentFactor,
             adjustedXp |-> adjustedXp]]

HomeB_characterXp(newCharacters, newMonsters) ==
    [i \in 1..Len(newCharacters) |->
        LET char == newCharacters[i]
            monsterContributions == HomeB_monsterContributions(char, newCharacters, newMonsters)
            totalCharacterXp ==
                SumSeq([j \in 1..Len(monsterContributions) |-> monsterContributions[j].adjustedXp])
            totalBaseXp ==
                SumSeq([j \in 1..Len(monsterContributions) |-> monsterContributions[j].baseXp])
            charAdjustmentFactor ==
                IF RLt(Num(0), totalBaseXp) THEN RDiv(totalCharacterXp, totalBaseXp) ELSE Num(0)
        IN  [characterId |-> char.id,
             effectiveHitDice |-> char.effectiveHitDice,
             adjustmentFactor |-> charAdjustmentFactor,
             adjustedXp |-> totalCharacterXp,
             monsterContributions |-> monsterContributions]]

HomeB_result(newCharacters, newMonsters) ==
    LET totalPartyHitDice ==
            SumSeq([i \in 1..Len(newCharacters) |-> newCharacters[i].effectiveHitDice])
        averagePartyLevel == RDiv(totalPartyHitDice, Num(Len(newCharacters)))
        totalMonsterCount == SumSeq([j \in 1..Len(newMonsters) |-> Num(newMonsters[j].count)])
        totalMonsterHitDice ==
            SumSeq([j \in 1..Len(newMonsters) |->
                      RMul(newMonsters[j].effectiveHitDice, Num(newMonsters[j].count))])
        averageMonsterLevel ==
            IF RLt(Num(0), totalMonsterCount)
            THEN RDiv(totalMonsterHitDice, totalMonsterCount) ELSE Num(0)
        overallAdjustmentFactor ==
            HomeB_calculateAdjustmentFactor(averagePartyLevel, averageMonsterLevel)
        totalXp == RMul(totalMonsterHitDice, Num(100))
        xpPerCharacter == RDiv(totalXp, Num(Len(newCharacters)))
    IN  [totalPartyHitDice |-> totalPartyHitDice,
         totalMonsterHitDice |-> totalMonsterHitDice,
         totalXp |-> totalXp,
         xpPerCharacter |-> xpPerCharacter,
         averagePartyLevel |-> averagePartyLevel,
         adjustmentFactor |-> overallAdjustmentFactor,
         characterXp |-> HomeB_characterXp(newCharacters, newMonsters)]

\* ---- Part001: onSubmit with the remainder step ----------------------------

Part001_calculatorSchema(d) ==
    /\ Len(d.characters) >= 1
    /\ Len(d.monsters) >= 1
    /\ \A i \in 1..Len(d.characters) : d.characters[i].hitDice >= 1
    /\ \A j \in 1..Len(d.monsters) : d.monsters[j].hitDice >= 1 /\ d.monsters[j].count >= 1

Part001_newCharacters(d) ==
    [i \in 1..Len(d.characters) |->
        [id |-> i,
         name |-> DefaultName("Character", i),
         hitDice |-> d.characters[i].hitDice,
         modifier |-> d.characters[i].modifier,
         effectiveHitDice |-> Part001_calculateEffectiveHitDice(d.characters[i].hitDice,
                                                                d.characters[i].modifier)]]

Part001_newMonsters(d) ==
    [j \in 1..Len(d.monsters) |->
        [id |-> j,
         name |-> DefaultName("Monster", j),
         hitDice |-> d.monsters[j].hitDice,
         modifier |-> d.monsters[j].modifier,
         count |-> d.monsters[j].count,
         effectiveHitDice |-> Part001_calculateEffectiveHitDice(d.monsters[j].hitDice,
                                                                d.monsters[j].modifier)]]

Part001_monsterContributions(char, newCharacters, newMonsters) ==
    [j \in 1..Len(newMonsters) |->
        LET monster == newMonsters[j]
            monsterXpContribution ==
                RDiv(RMul(RMul(monster.effectiveHitDice, Num(monster.count)), Num(100)),
                     Num(Len(newCharacters)))
            adjustmentFactor == Part001_calculateAdjustmentFactor(char.effectiveHitDice,
                                                                  monster.effectiveHitDice)
            adjustedXpFromMonster == RMul(monsterXpContribution, adjustmentFactor)
        IN  [monsterId |-> monster.id,
             monsterName |-> monster.name,
             baseXp |-> monsterXpContribution,
             adjustmentFactor |-> adjustmentFactor,
             adjustedXp |-> adjustedXpFromMonster]]

\* faulty variant: the sum of the contributions is not floored
Part001_flooredCharacterXp_unfloored(newCharacters, newMonsters, xpPerCharacter) ==
    [i \in 1..Len(newCharacters) |->
        LET char == newCharacters[i]
            monsterContributions ==
                Part001_monsterContributions(char, newCharacters, newMonsters)
            totalAdjustedXp ==
                SumSeq([j \in 1..Len(monsterContributions) |-> monsterContributions[j].adjustedXp])
            overallAdjustmentFactor == RDiv(totalAdjustedXp, xpPerCharacter)
        IN  [characterId |-> char.id,
             effectiveHitDice |-> char.effectiveHitDice,
             adjustmentFactor |-> overallAdjustmentFactor,
             adjustedXp |-> totalAdjustedXp,
             monsterContributions |-> monsterContributions]]

\* characterXp as the map leaves it, before the remainder step
Part001_flooredCharacterXp(newCharacters, newMonsters, xpPerCharacter) ==
    [i \in 1..Len(newCharacters) |->
        LET char == newCharacters[i]
            monsterContributions ==
                Part001_monsterContributions(char, newCharacters, newMonsters)
            totalAdjustedXp ==
                SumSeq([j \in 1..Len(monsterContributions) |-> monsterContributions[j].adjustedXp])
            overallAdjustmentFactor == RDiv(totalAdjustedXp, xpPerCharacter)
        IN  [characterId |-> char.id,
             effectiveHitDice |-> char.effectiveHitDice,
             adjustmentFactor |-> overallAdjustmentFactor,
             adjustedXp |-> Floor(totalAdjustedXp),
             monsterContributions |-> monsterContributions]]

\* characterXp.reduce((lowestIdx, curr, idx, arr) =>
\*     curr.effectiveHitDice < arr[lowestIdx].effectiveHitDice ? idx : lowestIdx, 0)
\* over the first k entries, as a 1-based index
RECURSIVE Part001_lowestLevelCharIndex(_, _)
Part001_lowestLevelCharIndex(characterXp, k) ==
    IF k = 0 THEN 1
    ELSE LET lowestIdx == Part001_lowestLevelCharIndex(characterXp, k - 1)
         IN  IF RLt(characterXp[k].effectiveHitDice, characterXp[lowestIdx].effectiveHitDice)
             THEN k ELSE lowestIdx

Part001_remainder(characterXp, totalXp) ==
    RSub(totalXp, SumSeq([i \in 1..Len(characterXp) |-> characterXp[i].adjustedXp]))

Part001_characterXp(newCharacters, newMonsters, totalXp, xpPerCharacter) ==
    LET characterXp == Part001_flooredCharacterXp(newCharacters, newMonsters, xpPerCharacter)
        lowestLevelCharIndex == Part001_lowestLevelCharIndex(characterXp, Len(characterXp))
        remainder == Part001_remainder(characterXp, totalXp)
    IN  IF RLt(Num(0), remainder) /\ Len(characterXp) > 0
        THEN [characterXp EXCEPT ![lowestLevelCharIndex].adjustedXp = RAdd(@, remainder)]
        ELSE characterXp

Part001_result(newCharacters, newMonsters) ==
    LET totalPartyHitDice ==
            SumSeq([i \in 1..Len(newCharacters) |-> newCharacters[i].effectiveHitDice])
        averagePartyLevel == RDiv(totalPartyHitDice, Num(Len(newCharacters)))
        totalMonsterCount == SumSeq([j \in 1..Len(newMonsters) |-> Num(newMonsters[j].count)])
        totalMonsterHitDice ==
            SumSeq([j \in 1..Len(newMonsters) |->
                      RMul(newMonsters[j].effectiveHitDice, Num(newMonsters[j].count))])
        averageMonsterLevel ==
            IF RLt(Num(0), totalMonsterCount)
            THEN RDiv(totalMonsterHitDice, totalMonsterCount) ELSE Num(0)
        totalXp == Part001_calculateTotalXp(newMonsters)
        xpPerCharacter == RDiv(totalXp, Num(Len(newCharacters)))
        overallAdjustmentFactor ==
            Part001_calculateAdjustmentFactor(averagePartyLevel, averageMonsterLevel)
    IN  [totalPartyHitDice |-> totalPartyHitDice,
         totalMonsterHitDice |-> totalMonsterHitDice,
         totalXp |-> totalXp,
         xpPerCharacter |-> xpPerCharacter,
         averagePartyLevel |-> averagePartyLevel,
         adjustmentFactor |-> overallAdjustmentFactor,
         characterXp |-> Part001_characterXp(newCharacters, newMonsters, totalXp, xpPerCharacter)]

\* ---- Angular: XpCalculatorService.calculateXp and the component ------------

RECURSIVE Svc_totals(_, _, _)
\* the forEach over the first k monsters: [hitDice, xp] accumulated so far
Svc_totals(mons, averagePartyLevel, k) ==
    IF k = 0 THEN [totalMonsterHitDice |-> Num(0), totalMonsterXp |-> Num(0)]
    ELSE LET acc == Svc_totals(mons, averagePartyLevel, k - 1)
             monster == mons[k]
             effectiveHD == Svc_calculateEffectiveHitDice(monster.hitDice, monster.modifier)
             count == OrDefault(monster.count, 1)
             adjustmentFactor == Svc_calculateAdjustmentFactor(averagePartyLevel, effectiveHD)
             monsterXp == RMul(RMul(RMul(Num(BASE_XP_PER_HD), effectiveHD), Num(count)),
                               adjustmentFactor)
         IN  [totalMonsterHitDice |-> RAdd(acc.totalMonsterHitDice, RMul(effectiveHD, Num(count))),
              totalMonsterXp |-> RAdd(acc.totalMonsterXp, monsterXp)]

Svc_calculateXp(chars, mons) ==
    IF Len(chars) = 0 \/ Len(mons) = 0
    THEN [totalPartyHitDice |-> Num(0),
          totalMonsterHitDice |-> Num(0),
          totalXp |-> Num(0),
          xpPerCharacter |-> Num(0),
          averagePartyLevel |-> Num(0),
          adjustmentFactor |-> Num(0)]
    ELSE LET totalPartyHitDice ==
                 SumSeq([i \in 1..Len(chars) |->
                           Svc_calculateEffectiveHitDice(chars[i].hitDice, chars[i].modifier)])
             averagePartyLevel == RDiv(totalPartyHitDice, Num(Len(chars)))
             totals == Svc_totals(mons, averagePartyLevel, Len(mons))
             adjustmentFactor ==
                 IF Len(chars) > 0
                 THEN RDiv(totals.totalMonsterXp,
                           RMul(Num(BASE_XP_PER_HD), totals.totalMonsterHitDice))
                 ELSE Num(1)
             xpPerCharacter ==
                 IF Len(chars) > 0
                 THEN Floor(RDiv(totals.totalMonsterXp, Num(Len(chars)))) ELSE Num(0)
         IN  [totalPartyHitDice |-> totalPartyHitDice,
              totalMonsterHitDice |-> totals.totalMonsterHitDice,
              totalXp |-> Floor(totals.totalMonsterXp),
              xpPerCharacter |-> xpPerCharacter,
              averagePartyLevel |-> averagePartyLevel,
              adjustmentFactor |-> adjustmentFactor]

\* the Character[] the component builds from the form
Cmp_characters(d) ==
    [i \in 1..Len(d.characters) |->
        [id |-> i - 1,
         hitDice |-> d.characters[i].hitDice,
         modifier |-> d.characters[i].modifier,
         effectiveHitDice |-> Svc_calculateEffectiveHitDice(d.characters[i].hitDice,
                                                            d.characters[i].modifier)]]

\* the Monster[] the component builds from the form
Cmp_monsters(d) ==
    [j \in 1..Len(d.monsters) |->
        [id |-> j - 1,
         hitDice |-> d.monsters[j].hitDice,
         modifier |-> d.monsters[j].modifier,
         count |-> d.monsters[j].count,
         effectiveHitDice |-> Svc_calculateEffectiveHitDice(d.monsters[j].hitDice,
                                                            d.monsters[j].modifier)]]

\* calculatorForm.valid: the validators of createCharacterForm / createMonsterForm
Cmp_formValid(d) ==
    /\ \A i \in 1..Len(d.characters) :
          /\ d.characters[i].hitDice >= 1 /\ d.characters[i].hitDice <= 20
          /\ d.characters[i].modifier >= -3 /\ d.characters[i].modifier <= 6
    /\ \A j \in 1..Len(d.monsters) :
          /\ d.monsters[j].hitDice >= 1 /\ d.monsters[j].hitDice <= 20
          /\ d.monsters[j].modifier >= -3 /\ d.monsters[j].modifier <= 6
          /\ d.monsters[j].count >= 1 /\ d.monsters[j].count <= 100

---------------------------------------------------------------------------
(* localStorage and JSON.                                                  *)
(*                                                                         *)
(* The item under the storage key is absent, a text that is not JSON, or   *)
(* the JSON text of an array; the array's text is modelled by the JSON     *)
(* values it denotes.  JSON.stringify writes a non-finite number as null   *)
(* and a Date as its ISO string; JSON.parse gives back the null and the    *)
(* string.                                                                 *)

NoItem == [text |-> "absent"]

Malformed == [text |-> "malformed"]

\* new Date() at clock value t
Date(t) == [time |-> t]

\* JSON.stringify of a number or null
JsonNumber(a) == IF a = Null THEN Null ELSE IF IsFinite(a) THEN a ELSE Null

\* JSON.stringify of a Date or of a date string
JsonDate(d) == IF "time" \in DOMAIN d THEN [iso |-> d.time] ELSE d

\* new Date(calc.date) of a parsed date string
ReviveDate(d) == IF "iso" \in DOMAIN d THEN Date(d.iso) ELSE d

JsonEntry(e) == [e EXCEPT !.effectiveHitDice = JsonNumber(@)]

JsonContribution(c) ==
    [c EXCEPT !.baseXp = JsonNumber(@),
              !.adjustmentFactor = JsonNumber(@),
              !.adjustedXp = JsonNumber(@)]

JsonCharacterXp(x) ==
    [x EXCEPT !.effectiveHitDice = JsonNumber(@),
              !.adjustmentFactor = JsonNumber(@),
              !.adjustedXp = JsonNumber(@),
              !.monsterContributions =
                  [j \in 1..Len(@) |-> JsonContribution(@[j])]]

JsonResult(r) ==
    LET totals == [r EXCEPT !.totalPartyHitDice = JsonNumber(@),
                            !.totalMonsterHitDice = JsonNumber(@),
                            !.totalXp = JsonNumber(@),
                            !.xpPerCharacter = JsonNumber(@),
                            !.averagePartyLevel = JsonNumber(@),
                            !.adjustmentFactor = JsonNumber(@)]
    IN  IF "characterXp" \in DOMAIN r
        THEN [totals EXCEPT !.characterXp = [i \in 1..Len(@) |-> JsonCharacterXp(@[i])]]
        ELSE totals

JsonSavedCalculation(calc) ==
    [id |-> calc.id,
     date |-> JsonDate(calc.date),
     characters |-> [i \in 1..Len(calc.characters) |-> JsonEntry(calc.characters[i])],
     monsters |-> [j \in 1..Len(calc.monsters) |-> JsonEntry(calc.monsters[j])],
     result |-> JsonResult(calc.result)]

\* localStorage.setItem(key, JSON.stringify(calculations))
JSON_stringify(calculations) ==
    [text |-> "array",
     items |-> [k \in 1..Len(calculations) |-> JsonSavedCalculation(calculations[k])]]

\* JSON.parse of an item that holds an array
JSON_parse(item) == item.items

\* the saved calculations the store holds
StoredCalculations == IF storage.text = "array" THEN JSON_parse(storage) ELSE <<>>

\* calculations.filter(calc => calc.id !== id)
WithoutId(calculations, id) == SelectSeq(calculations, LAMBDA calc : calc.id # id)

\* the hit dice, modifier and count the form holds, without the other fields
FormValue(d) ==
    [characters |-> [i \in 1..Len(d.characters) |->
                        [hitDice |-> d.characters[i].hitDice,
                         modifier |-> d.characters[i].modifier]],
     monsters |-> [j \in 1..Len(d.monsters) |->
                      [hitDice |-> d.monsters[j].hitDice,
                       modifier |-> d.monsters[j].modifier,
                       count |-> d.monsters[j].count]]]

\* useState / defaultValues / createForm: one character 1+0, one monster 1+0 x1
DefaultForm ==
    [characters |-> <<[hitDice |-> 1, modifier |-> 0]>>,
     monsters |-> <<[hitDice |-> 1, modifier |-> 0, count |-> 1]>>]

---------------------------------------------------------------------------
(* Calculation runs: a form is submitted to one build.                     *)

SeqsUpTo(S, n) == UNION {[1..k -> S] : k \in 0..n}

FormCharacters == [hitDice : CharacterHitDiceValues, modifier : ModifierValues]

FormMonsters ==
    [hitDice : MonsterHitDiceValues, modifier : ModifierValues, count : CountValues]

FormValues ==
    [characters : SeqsUpTo(FormCharacters, MaxChars),
     monsters : SeqsUpTo(FormMonsters, MaxMonsters)]

EmptyForm == [characters |-> <<>>, monsters |-> <<>>]

\* HomeA keeps the form in `characters` / `monsters`, which never become empty
\* (useState initial value, removeCharacter / removeMonster guards)
Init ==
    /\ impl \in Impls
    /\ data \in FormValues
    /\ impl = "HomeA" => Len(data.characters) >= 1 /\ Len(data.monsters) >= 1
    /\ characters = <<>>
    /\ monsters = <<>>
    /\ result = Null
    /\ characterIn = Null
    /\ monsterIn = Null
    /\ characterHD = Null
    /\ monsterHD = Null
    /\ factor = Null
    /\ storage = NoItem
    /\ savedCalculations = <<>>
    /\ mounted = TRUE
    /\ thrown = FALSE
    /\ now = 0
    /\ op = [name |-> "init"]
    /\ lastSaved = Null
    /\ memo = Null
    /\ peerSavedCalculations = <<>>
    /\ peerLastSaved = Null

\* faulty variant: the total of the result on the page is carried into the new one
HomeA_calculateXp_accumulating ==
    /\ impl = "HomeA"
    /\ mounted
    /\ result' = IF result = Null
                 THEN HomeA_newResult(data.characters, data.monsters)
                 ELSE [HomeA_newResult(data.characters, data.monsters)
                          EXCEPT !.totalXp = RAdd(@, result.totalXp)]
    /\ op' = [name |-> "calculate"]
    /\ memo' = IF memo = Null
               THEN [input |-> FormValue(data), result |-> result', at |-> now]
               ELSE memo
    /\ UNCHANGED <<impl, data, characters, monsters, helperVars, storeVars, lastSaved,
                   peerVars>>

HomeA_calculateXp ==
    /\ impl = "HomeA"
    /\ mounted
    /\ result' = HomeA_newResult(data.characters, data.monsters)
    /\ op' = [name |-> "calculate"]
    /\ memo' = IF memo = Null
               THEN [input |-> FormValue(data), result |-> result', at |-> now]
               ELSE memo
    /\ UNCHANGED <<impl, data, characters, monsters, helperVars, storeVars, lastSaved,
                   peerVars>>

HomeB_onSubmit ==
    /\ impl = "HomeB"
    /\ mounted
    /\ HomeB_calculatorSchema(data)
    /\ characters' = HomeB_newCharacters(data)
    /\ monsters' = HomeB_newMonsters(data)
    /\ result' = HomeB_result(HomeB_newCharacters(data), HomeB_newMonsters(data))
    /\ op' = [name |-> "calculate"]
    /\ memo' = IF memo = Null
               THEN [input |-> FormValue(data), result |-> result', at |-> now]
               ELSE memo
    /\ UNCHANGED <<impl, data, helperVars, storeVars, lastSaved, peerVars>>

\* faulty variant: the calculation also writes its result to the store
Part001_onSubmit_autosave ==
    /\ impl = "Part001"
    /\ mounted
    /\ Part001_calculatorSchema(data)
    /\ characters' = Part001_newCharacters(data)
    /\ monsters' = Part001_newMonsters(data)
    /\ result' = Part001_result(Part001_newCharacters(data), Part001_newMonsters(data))
    /\ storage' = JSON_stringify(<<[id |-> now, date |-> Date(now),
                                    characters |-> characters', monsters |-> monsters',
                                    result |-> result']>>)
    /\ op' = [name |-> "calculate"]
    /\ memo' = IF memo = Null
               THEN [input |-> FormValue(data), result |-> result', at |-> now]
               ELSE memo
    /\ UNCHANGED <<impl, data, helperVars, savedCalculations, mounted, thrown, now, lastSaved,
                   peerVars>>

Part001_onSubmit ==
    /\ impl = "Part001"
    /\ mounted
    /\ Part001_calculatorSchema(data)
    /\ characters' = Part001_newCharacters(data)
    /\ monsters' = Part001_newMonsters(data)
    /\ result' = Part001_result(Part001_newCharacters(data), Part001_newMonsters(data))
    /\ op' = [name |-> "calculate"]
    /\ memo' = IF memo = Null
               THEN [input |-> FormValue(data), result |-> result', at |-> now]
               ELSE memo
    /\ UNCHANGED <<impl, data, helperVars, storeVars, lastSaved, peerVars>>

\* faulty variant: an invalid form clears the result on the page
Cmp_calculateXp_clearing ==
    /\ impl = "Angular"
    /\ mounted
    /\ Len(data.characters) >= 1 /\ Len(data.monsters) >= 1
    /\ IF ~Cmp_formValid(data)
       THEN /\ op' = [name |-> "formInvalid"]
            /\ result' = Null
            /\ UNCHANGED memo
       ELSE /\ result' = Svc_calculateXp(Cmp_characters(data), Cmp_monsters(data))
            /\ op' = [name |-> "calculate"]
            /\ memo' = IF memo = Null
               THEN [input |-> FormValue(data), result |-> result', at |-> now]
               ELSE memo
    /\ UNCHANGED <<impl, data, characters, monsters, helperVars, storeVars, lastSaved,
                   peerVars>>

\* the component's button handler: the form arrays hold at least one entry each;
\* an invalid form is reported and nothing is calculated
Cmp_calculateXp ==
    /\ impl = "Angular"
    /\ mounted
    /\ Len(data.characters) >= 1 /\ Len(data.monsters) >= 1
    /\ IF ~Cmp_formValid(data)
       THEN /\ op' = [name |-> "formInvalid"]
            /\ UNCHANGED result
            /\ UNCHANGED memo
       ELSE /\ result' = Svc_calculateXp(Cmp_characters(data), Cmp_monsters(data))
            /\ op' = [name |-> "calculate"]
            /\ memo' = IF memo = Null
               THEN [input |-> FormValue(data), result |-> result', at |-> now]
               ELSE memo
    /\ UNCHANGED <<impl, data, characters, monsters, helperVars, storeVars, lastSaved,
                   peerVars>>

\* the injectable service called directly, with any two lists
Svc_calculateXp_call ==
    /\ impl = "Angular"
    /\ result' = Svc_calculateXp(Cmp_characters(data), Cmp_monsters(data))
    /\ op' = [name |-> "calculate"]
    /\ memo' = IF memo = Null
               THEN [input |-> FormValue(data), result |-> result', at |-> now]
               ELSE memo
    /\ UNCHANGED <<impl, data, characters, monsters, helperVars, storeVars, lastSaved,
                   peerVars>>

Next ==
    \/ HomeA_calculateXp
    \/ HomeB_onSubmit
    \/ Part001_onSubmit
    \/ Cmp_calculateXp
    \/ Svc_calculateXp_call

Spec == Init /\ [][Next]_vars

---------------------------------------------------------------------------
(* Helper runs: one character is paired with monsters, one after another,  *)
(* and the build's helper functions are applied to the pair.               *)

HelperInputs == [hitDice : 1..MaxHelperHitDice, modifier : (-ModifierSpan)..ModifierSpan]

HelperInit ==
    /\ impl \in Impls
    /\ data = EmptyForm
    /\ characters = <<>>
    /\ monsters = <<>>
    /\ result = Null
    /\ characterIn \in HelperInputs
    /\ monsterIn = Null
    /\ characterHD = Null
    /\ monsterHD = Null
    /\ factor = Null
    /\ storage = NoItem
    /\ savedCalculations = <<>>
    /\ mounted = TRUE
    /\ thrown = FALSE
    /\ now = 0
    /\ op = [name |-> "init"]
    /\ lastSaved = Null
    /\ memo = Null
    /\ peerSavedCalculations = <<>>
    /\ peerLastSaved = Null

HomeA_adjust(m) ==
    /\ impl = "HomeA"
    /\ monsterIn' = m
    /\ characterHD' = HomeA_calculateEffectiveHitDice(characterIn.hitDice, characterIn.modifier)
    /\ monsterHD' = HomeA_calculateEffectiveHitDice(m.hitDice, m.modifier)
    /\ factor' = HomeA_calculateAdjustmentFactor(characterHD', monsterHD')
    /\ UNCHANGED <<calcVars, storeVars, historyVars, characterIn, peerVars>>

HomeB_adjust(m) ==
    /\ impl = "HomeB"
    /\ monsterIn' = m
    /\ characterHD' = HomeB_calculateEffectiveHitDice(characterIn.hitDice, characterIn.modifier)
    /\ monsterHD' = HomeB_calculateEffectiveHitDice(m.hitDice, m.modifier)
    /\ factor' = HomeB_calculateAdjustmentFactor(characterHD', monsterHD')
    /\ UNCHANGED <<calcVars, storeVars, historyVars, characterIn, peerVars>>

Part001_adjust(m) ==
    /\ impl = "Part001"
    /\ monsterIn' = m
    /\ characterHD' = Part001_calculateEffectiveHitDice(characterIn.hitDice, characterIn.modifier)
    /\ monsterHD' = Part001_calculateEffectiveHitDice(m.hitDice, m.modifier)
    /\ factor' = Part001_calculateAdjustmentFactor(characterHD', monsterHD')
    /\ UNCHANGED <<calcVars, storeVars, historyVars, characterIn, peerVars>>

Svc_adjust(m) ==
    /\ impl = "Angular"
    /\ monsterIn' = m
    /\ characterHD' = Svc_calculateEffectiveHitDice(characterIn.hitDice, characterIn.modifier)
    /\ monsterHD' = Svc_calculateEffectiveHitDice(m.hitDice, m.modifier)
    /\ factor' = Svc_calculateAdjustmentFactor(characterHD', monsterHD')
    /\ UNCHANGED <<calcVars, storeVars, historyVars, characterIn, peerVars>>

HelperNext ==
    \/ \E m \in HelperInputs : HomeA_adjust(m)
    \/ \E m \in HelperInputs : HomeB_adjust(m)
    \/ \E m \in HelperInputs : Part001_adjust(m)
    \/ \E m \in HelperInputs : Svc_adjust(m)

SpecHelpers == HelperInit /\ [][HelperNext]_vars

---------------------------------------------------------------------------
(* Sessions: the page is opened, the form is edited, calculations are      *)
(* run, saved, loaded and deleted, and the page is opened again.           *)

\* what is typed into a field of a character row and of a monster row
TypedCharacterValues == {<<"hitDice", 1>>, <<"hitDice", 2>>}
TypedMonsterValues == {<<"modifier", 0>>, <<"modifier", -4>>}

\* updatedCharacters.splice(index, 1) / characters.filter((_, i) => i !== index) /
\* charactersArray.removeAt(index), with a 1-based index
RemoveAt(s, index) == SubSeq(s, 1, index - 1) \o SubSeq(s, index + 1, Len(s))

\* the page is loaded again: every useState / field starts over, localStorage stays
Reload ==
    /\ mounted \/ thrown
    /\ data' = DefaultForm
    /\ characters' = <<>>
    /\ monsters' = <<>>
    /\ result' = Null
    /\ savedCalculations' = <<>>
    /\ mounted' = (impl = "HomeA")
    /\ thrown' = FALSE
    /\ op' = [name |-> "reload"]
    /\ UNCHANGED <<impl, helperVars, storage, now, lastSaved, memo, peerVars>>

\* ---- HomeA ----------------------------------------------------------------

HomeA_newSavedCalculation(chars, mons, res, t) ==
    [id |-> t,
     date |-> Date(t),
     characters |-> HomeA_calculatedCharacters(chars),
     monsters |-> HomeA_calculatedMonsters(mons),
     result |-> res]

\* faulty variant: the new record is put in front of the stored ones
HomeA_saveCalculation_prepend ==
    /\ impl = "HomeA"
    /\ mounted
    /\ IF result = Null
       THEN /\ op' = [name |-> "nothingToSave"]
            /\ UNCHANGED <<storage, savedCalculations, now, lastSaved>>
       ELSE /\ now < MaxSaves
            /\ Len(StoredCalculations) < MaxSaves
            /\ Len(savedCalculations) < MaxSaves
            /\ LET newSavedCalculation ==
                       HomeA_newSavedCalculation(data.characters, data.monsters, result, now)
                   updatedCalculations == <<newSavedCalculation>> \o StoredCalculations
               IN  /\ storage' = JSON_stringify(updatedCalculations)
                   /\ savedCalculations' = updatedCalculations
                   /\ lastSaved' = newSavedCalculation
            /\ now' \in {now, now + 1}
            /\ op' = [name |-> "save", id |-> now, found |-> storage.text]
    /\ UNCHANGED <<impl, data, characters, monsters, result, helperVars,
                   mounted, thrown, memo, peerVars>>

HomeA_saveCalculation ==
    /\ impl = "HomeA"
    /\ mounted
    /\ IF result = Null
       THEN /\ op' = [name |-> "nothingToSave"]
            /\ UNCHANGED <<storage, savedCalculations, now, lastSaved>>
       ELSE /\ now < MaxSaves
            /\ Len(StoredCalculations) < MaxSaves
            /\ Len(savedCalculations) < MaxSaves
            /\ LET newSavedCalculation ==
                       HomeA_newSavedCalculation(data.characters, data.monsters, result, now)
                   \* a stored text that does not parse leaves updatedCalculations empty
                   updatedCalculations == StoredCalculations \o <<newSavedCalculation>>
               IN  /\ storage' = JSON_stringify(updatedCalculations)
                   /\ savedCalculations' = updatedCalculations
                   /\ lastSaved' = newSavedCalculation
            /\ now' \in {now, now + 1}
            /\ op' = [name |-> "save", id |-> now, found |-> storage.text]
    /\ UNCHANGED <<impl, data, characters, monsters, result, helperVars,
                   mounted, thrown, memo, peerVars>>

\* toggleSavedCalculations opening the panel
HomeA_loadSavedCalculations ==
    /\ impl = "HomeA"
    /\ mounted
    /\ savedCalculations' =
           IF storage.text = "array" THEN JSON_parse(storage) ELSE savedCalculations
    /\ op' = [name |-> "loadSavedCalculations"]
    /\ UNCHANGED <<impl, data, characters, monsters, result, helperVars,
                   storage, mounted, thrown, now, lastSaved, memo, peerVars>>

\* faulty variant: the result on the page is kept
HomeA_loadCalculation_keepResult(k) ==
    /\ impl = "HomeA"
    /\ mounted
    /\ k \in 1..Len(savedCalculations)
    /\ data' = [characters |-> savedCalculations[k].characters,
                monsters |-> savedCalculations[k].monsters]
    /\ op' = [name |-> "load", id |-> savedCalculations[k].id]
    /\ UNCHANGED <<impl, characters, monsters, result, helperVars, storeVars, lastSaved, memo,
                   peerVars>>

HomeA_loadCalculation(k) ==
    /\ impl = "HomeA"
    /\ mounted
    /\ k \in 1..Len(savedCalculations)
    /\ data' = [characters |-> savedCalculations[k].characters,
                monsters |-> savedCalculations[k].monsters]
    /\ result' = savedCalculations[k].result
    /\ op' = [name |-> "load", id |-> savedCalculations[k].id]
    /\ UNCHANGED <<impl, characters, monsters, helperVars, storeVars, lastSaved, memo,
                   peerVars>>

HomeA_deleteCalculation(k) ==
    /\ impl = "HomeA"
    /\ mounted
    /\ k \in 1..Len(savedCalculations)
    /\ LET id == savedCalculations[k].id
           updatedCalculations == WithoutId(savedCalculations, id)
       IN  /\ storage' = JSON_stringify(updatedCalculations)
           /\ savedCalculations' = updatedCalculations
           /\ op' = [name |-> "delete", id |-> id]
    /\ UNCHANGED <<impl, data, characters, monsters, result, helperVars,
                   mounted, thrown, now, lastSaved, memo, peerVars>>

HomeA_addCharacter ==
    /\ impl = "HomeA"
    /\ mounted
    /\ Len(data.characters) < MaxChars
    /\ data' = [data EXCEPT !.characters = Append(@, [hitDice |-> 1, modifier |-> 0])]
    /\ op' = [name |-> "addCharacter"]
    /\ UNCHANGED <<impl, characters, monsters, result, helperVars, storeVars, lastSaved, memo,
                   peerVars>>

\* faulty variant: no guard on the last character
HomeA_removeCharacter_unguarded(index) ==
    /\ impl = "HomeA"
    /\ mounted
    /\ index \in 1..Len(data.characters)
    /\ data' = [data EXCEPT !.characters = RemoveAt(@, index)]
    /\ op' = [name |-> "removeCharacter", removed |-> TRUE]
    /\ UNCHANGED <<impl, characters, monsters, result, helperVars, storeVars, lastSaved, memo,
                   peerVars>>

HomeA_removeCharacter(index) ==
    /\ impl = "HomeA"
    /\ mounted
    /\ index \in 1..Len(data.characters)
    /\ IF Len(data.characters) <= 1
       THEN /\ data' = data
            /\ op' = [name |-> "removeCharacter", removed |-> FALSE]
       ELSE /\ data' = [data EXCEPT !.characters = RemoveAt(@, index)]
            /\ op' = [name |-> "removeCharacter", removed |-> TRUE]
    /\ UNCHANGED <<impl, characters, monsters, result, helperVars, storeVars, lastSaved, memo,
                   peerVars>>

HomeA_updateCharacter(index, field, value) ==
    /\ impl = "HomeA"
    /\ mounted
    /\ index \in 1..Len(data.characters)
    /\ data' = [data EXCEPT !.characters[index][field] = value]
    /\ op' = [name |-> "updateCharacter"]
    /\ UNCHANGED <<impl, characters, monsters, result, helperVars, storeVars, lastSaved, memo,
                   peerVars>>

HomeA_addMonster ==
    /\ impl = "HomeA"
    /\ mounted
    /\ Len(data.monsters) < MaxMonsters
    /\ data' = [data EXCEPT !.monsters =
                    Append(@, [hitDice |-> 1, modifier |-> 0, count |-> 1])]
    /\ op' = [name |-> "addMonster"]
    /\ UNCHANGED <<impl, characters, monsters, result, helperVars, storeVars, lastSaved, memo,
                   peerVars>>

HomeA_removeMonster(index) ==
    /\ impl = "HomeA"
    /\ mounted
    /\ index \in 1..Len(data.monsters)
    /\ IF Len(data.monsters) <= 1
       THEN /\ data' = data
            /\ op' = [name |-> "removeMonster", removed |-> FALSE]
       ELSE /\ data' = [data EXCEPT !.monsters = RemoveAt(@, index)]
            /\ op' = [name |-> "removeMonster", removed |-> TRUE]
    /\ UNCHANGED <<impl, characters, monsters, result, helperVars, storeVars, lastSaved, memo,
                   peerVars>>

HomeA_updateMonster(index, field, value) ==
    /\ impl = "HomeA"
    /\ mounted
    /\ index \in 1..Len(data.monsters)
    /\ data' = [data EXCEPT !.monsters[index][field] = value]
    /\ op' = [name |-> "updateMonster"]
    /\ UNCHANGED <<impl, characters, monsters, result, helperVars, storeVars, lastSaved, memo,
                   peerVars>>

HomeA_resetForm ==
    /\ impl = "HomeA"
    /\ mounted
    /\ data' = DefaultForm
    /\ result' = Null
    /\ op' = [name |-> "reset"]
    /\ UNCHANGED <<impl, characters, monsters, helperVars, storeVars, lastSaved, memo,
                   peerVars>>

\* ---- HomeB: the form-driven page ---------------------------------------------

\* the useEffect that runs once after the first render
HomeB_mount ==
    /\ impl = "HomeB"
    /\ ~mounted
    /\ mounted' = TRUE
    /\ savedCalculations' =
           IF storage.text = "array"
           THEN [k \in 1..Len(JSON_parse(storage)) |->
                    [JSON_parse(storage)[k] EXCEPT !.date = ReviveDate(@)]]
           ELSE savedCalculations
    /\ op' = [name |-> "loadSavedCalculations"]
    /\ UNCHANGED <<impl, data, characters, monsters, result, helperVars,
                   storage, thrown, now, lastSaved, memo, peerVars>>

HomeB_newSavedCalculation(chars, mons, res, t) ==
    [id |-> t, date |-> Date(t), characters |-> chars, monsters |-> mons, result |-> res]

\* faulty variant: only the new record is written to the store
HomeB_saveCalculation_overwrite ==
    /\ impl = "HomeB"
    /\ mounted
    /\ IF result = Null \/ Len(characters) = 0 \/ Len(monsters) = 0
       THEN /\ op' = [name |-> "nothingToSave"]
            /\ UNCHANGED <<storage, savedCalculations, now, lastSaved>>
       ELSE /\ now < MaxSaves
            /\ Len(StoredCalculations) < MaxSaves
            /\ Len(savedCalculations) < MaxSaves
            /\ LET newSavedCalculation == HomeB_newSavedCalculation(characters, monsters, result, now)
               IN  /\ savedCalculations' = <<newSavedCalculation>>
                   /\ storage' = JSON_stringify(<<newSavedCalculation>>)
                   /\ lastSaved' = newSavedCalculation
            /\ now' \in {now, now + 1}
            /\ op' = [name |-> "save", id |-> now, found |-> storage.text]
    /\ UNCHANGED <<impl, data, characters, monsters, result, helperVars,
                   mounted, thrown, memo, peerVars>>

HomeB_saveCalculation ==
    /\ impl = "HomeB"
    /\ mounted
    /\ IF result = Null \/ Len(characters) = 0 \/ Len(monsters) = 0
       THEN /\ op' = [name |-> "nothingToSave"]
            /\ UNCHANGED <<storage, savedCalculations, now, lastSaved>>
       ELSE /\ now < MaxSaves
            /\ Len(StoredCalculations) < MaxSaves
            /\ Len(savedCalculations) < MaxSaves
            /\ LET newSavedCalculation == HomeB_newSavedCalculation(characters, monsters, result, now)
                   updatedSaved == savedCalculations \o <<newSavedCalculation>>
               IN  /\ savedCalculations' = updatedSaved
                   /\ storage' = JSON_stringify(updatedSaved)
                   /\ lastSaved' = newSavedCalculation
            /\ now' \in {now, now + 1}
            /\ op' = [name |-> "save", id |-> now, found |-> storage.text]
    /\ UNCHANGED <<impl, data, characters, monsters, result, helperVars,
                   mounted, thrown, memo, peerVars>>

HomeB_loadCalculation(k) ==
    /\ impl = "HomeB"
    /\ mounted
    /\ k \in 1..Len(savedCalculations)
    /\ LET savedCalc == savedCalculations[k]
       IN  /\ data' = FormValue([characters |-> savedCalc.characters,
                                 monsters |-> savedCalc.monsters])
           /\ characters' = savedCalc.characters
           /\ monsters' = savedCalc.monsters
           /\ result' = savedCalc.result
           /\ op' = [name |-> "load", id |-> savedCalc.id]
    /\ UNCHANGED <<impl, helperVars, storeVars, lastSaved, memo, peerVars>>

HomeB_deleteCalculation(k) ==
    /\ impl = "HomeB"
    /\ mounted
    /\ k \in 1..Len(savedCalculations)
    /\ LET id == savedCalculations[k].id
           updatedSaved == WithoutId(savedCalculations, id)
       IN  /\ savedCalculations' = updatedSaved
           /\ storage' = JSON_stringify(updatedSaved)
           /\ op' = [name |-> "delete", id |-> id]
    /\ UNCHANGED <<impl, data, characters, monsters, result, helperVars,
                   mounted, thrown, now, lastSaved, memo, peerVars>>

HomeB_addCharacter ==
    /\ impl = "HomeB"
    /\ mounted
    /\ Len(data.characters) < MaxChars
    /\ data' = [data EXCEPT !.characters = Append(@, [hitDice |-> 1, modifier |-> 0])]
    /\ op' = [name |-> "addCharacter"]
    /\ UNCHANGED <<impl, characters, monsters, result, helperVars, storeVars, lastSaved, memo,
                   peerVars>>

HomeB_removeCharacter(index) ==
    /\ impl = "HomeB"
    /\ mounted
    /\ index \in 1..Len(data.characters)
    /\ IF Len(data.characters) > 1
       THEN /\ data' = [data EXCEPT !.characters = RemoveAt(@, index)]
            /\ op' = [name |-> "removeCharacter", removed |-> TRUE]
       ELSE /\ data' = data
            /\ op' = [name |-> "removeCharacter", removed |-> FALSE]
    /\ UNCHANGED <<impl, characters, monsters, result, helperVars, storeVars, lastSaved, memo,
                   peerVars>>

\* field.onChange of a character row's input
HomeB_characterChange(index, field, value) ==
    /\ impl = "HomeB"
    /\ mounted
    /\ index \in 1..Len(data.characters)
    /\ data' = [data EXCEPT !.characters[index][field] = value]
    /\ op' = [name |-> "updateCharacter"]
    /\ UNCHANGED <<impl, characters, monsters, result, helperVars, storeVars, lastSaved, memo,
                   peerVars>>

HomeB_addMonster ==
    /\ impl = "HomeB"
    /\ mounted
    /\ Len(data.monsters) < MaxMonsters
    /\ data' = [data EXCEPT !.monsters =
                    Append(@, [hitDice |-> 1, modifier |-> 0, count |-> 1])]
    /\ op' = [name |-> "addMonster"]
    /\ UNCHANGED <<impl, characters, monsters, result, helperVars, storeVars, lastSaved, memo,
                   peerVars>>

HomeB_removeMonster(index) ==
    /\ impl = "HomeB"
    /\ mounted
    /\ index \in 1..Len(data.monsters)
    /\ IF Len(data.monsters) > 1
       THEN /\ data' = [data EXCEPT !.monsters = RemoveAt(@, index)]
            /\ op' = [name |-> "removeMonster", removed |-> TRUE]
       ELSE /\ data' = data
            /\ op' = [name |-> "removeMonster", removed |-> FALSE]
    /\ UNCHANGED <<impl, characters, monsters, result, helperVars, storeVars, lastSaved, memo,
                   peerVars>>

\* field.onChange of a monster row's input
HomeB_monsterChange(index, field, value) ==
    /\ impl = "HomeB"
    /\ mounted
    /\ index \in 1..Len(data.monsters)
    /\ data' = [data EXCEPT !.monsters[index][field] = value]
    /\ op' = [name |-> "updateMonster"]
    /\ UNCHANGED <<impl, characters, monsters, result, helperVars, storeVars, lastSaved, memo,
                   peerVars>>

HomeB_resetForm ==
    /\ impl = "HomeB"
    /\ mounted
    /\ data' = DefaultForm
    /\ characters' = <<>>
    /\ monsters' = <<>>
    /\ result' = Null
    /\ op' = [name |-> "reset"]
    /\ UNCHANGED <<impl, helperVars, storeVars, lastSaved, memo, peerVars>>

\* ---- Part001: the form-driven page ---------------------------------------------

\* the useEffect that runs once after the first render
Part001_mount ==
    /\ impl = "Part001"
    /\ ~mounted
    /\ mounted' = TRUE
    /\ savedCalculations' =
           IF storage.text = "array"
           THEN [k \in 1..Len(JSON_parse(storage)) |->
                    [JSON_parse(storage)[k] EXCEPT !.date = ReviveDate(@)]]
           ELSE savedCalculations
    /\ op' = [name |-> "loadSavedCalculations"]
    /\ UNCHANGED <<impl, data, characters, monsters, result, helperVars,
                   storage, thrown, now, lastSaved, memo, peerVars>>

Part001_newSavedCalculation(chars, mons, res, t) ==
    [id |-> t, date |-> Date(t), characters |-> chars, monsters |-> mons, result |-> res]

\* faulty variant: the list in memory is not given the new record
Part001_saveCalculation_storeOnly ==
    /\ impl = "Part001"
    /\ mounted
    /\ IF result = Null \/ Len(characters) = 0 \/ Len(monsters) = 0
       THEN /\ op' = [name |-> "nothingToSave"]
            /\ UNCHANGED <<storage, savedCalculations, now, lastSaved>>
       ELSE /\ now < MaxSaves
            /\ Len(StoredCalculations) < MaxSaves
            /\ Len(savedCalculations) < MaxSaves
            /\ LET newSavedCalculation == Part001_newSavedCalculation(characters, monsters, result, now)
                   updatedSaved == savedCalculations \o <<newSavedCalculation>>
               IN  /\ savedCalculations' = savedCalculations
                   /\ storage' = JSON_stringify(updatedSaved)
                   /\ lastSaved' = newSavedCalculation
            /\ now' \in {now, now + 1}
            /\ op' = [name |-> "save", id |-> now, found |-> storage.text]
    /\ UNCHANGED <<impl, data, characters, monsters, result, helperVars,
                   mounted, thrown, memo, peerVars>>

Part001_saveCalculation ==
    /\ impl = "Part001"
    /\ mounted
    /\ IF result = Null \/ Len(characters) = 0 \/ Len(monsters) = 0
       THEN /\ op' = [name |-> "nothingToSave"]
            /\ UNCHANGED <<storage, savedCalculations, now, lastSaved>>
       ELSE /\ now < MaxSaves
            /\ Len(StoredCalculations) < MaxSaves
            /\ Len(savedCalculations) < MaxSaves
            /\ LET newSavedCalculation == Part001_newSavedCalculation(characters, monsters, result, now)
                   updatedSaved == savedCalculations \o <<newSavedCalculation>>
               IN  /\ savedCalculations' = updatedSaved
                   /\ storage' = JSON_stringify(updatedSaved)
                   /\ lastSaved' = newSavedCalculation
            /\ now' \in {now, now + 1}
            /\ op' = [name |-> "save", id |-> now, found |-> storage.text]
    /\ UNCHANGED <<impl, data, characters, monsters, result, helperVars,
                   mounted, thrown, memo, peerVars>>

Part001_loadCalculation(k) ==
    /\ impl = "Part001"
    /\ mounted
    /\ k \in 1..Len(savedCalculations)
    /\ LET savedCalc == savedCalculations[k]
       IN  /\ data' = FormValue([characters |-> savedCalc.characters,
                                 monsters |-> savedCalc.monsters])
           /\ characters' = savedCalc.characters
           /\ monsters' = savedCalc.monsters
           /\ result' = savedCalc.result
           /\ op' = [name |-> "load", id |-> savedCalc.id]
    /\ UNCHANGED <<impl, helperVars, storeVars, lastSaved, memo, peerVars>>

\* faulty variant: the records saved after the deleted one go with it
Part001_deleteCalculation_truncate(k) ==
    /\ impl = "Part001"
    /\ mounted
    /\ k \in 1..Len(savedCalculations)
    /\ LET id == savedCalculations[k].id
           updatedSaved == SubSeq(savedCalculations, 1, k - 1)
       IN  /\ savedCalculations' = updatedSaved
           /\ storage' = JSON_stringify(updatedSaved)
           /\ op' = [name |-> "delete", id |-> id]
    /\ UNCHANGED <<impl, data, characters, monsters, result, helperVars,
                   mounted, thrown, now, lastSaved, memo, peerVars>>

Part001_deleteCalculation(k) ==
    /\ impl = "Part001"
    /\ mounted
    /\ k \in 1..Len(savedCalculations)
    /\ LET id == savedCalculations[k].id
           updatedSaved == WithoutId(savedCalculations, id)
       IN  /\ savedCalculations' = updatedSaved
           /\ storage' = JSON_stringify(updatedSaved)
           /\ op' = [name |-> "delete", id |-> id]
    /\ UNCHANGED <<impl, data, characters, monsters, result, helperVars,
                   mounted, thrown, now, lastSaved, memo, peerVars>>

Part001_addCharacter ==
    /\ impl = "Part001"
    /\ mounted
    /\ Len(data.characters) < MaxChars
    /\ data' = [data EXCEPT !.characters = Append(@, [hitDice |-> 1, modifier |-> 0])]
    /\ op' = [name |-> "addCharacter"]
    /\ UNCHANGED <<impl, characters, monsters, result, helperVars, storeVars, lastSaved, memo,
                   peerVars>>

Part001_removeCharacter(index) ==
    /\ impl = "Part001"
    /\ mounted
    /\ index \in 1..Len(data.characters)
    /\ IF Len(data.characters) > 1
       THEN /\ data' = [data EXCEPT !.characters = RemoveAt(@, index)]
            /\ op' = [name |-> "removeCharacter", removed |-> TRUE]
       ELSE /\ data' = data
            /\ op' = [name |-> "removeCharacter", removed |-> FALSE]
    /\ UNCHANGED <<impl, characters, monsters, result, helperVars, storeVars, lastSaved, memo,
                   peerVars>>

\* field.onChange of a character row's input
Part001_characterChange(index, field, value) ==
    /\ impl = "Part001"
    /\ mounted
    /\ index \in 1..Len(data.characters)
    /\ data' = [data EXCEPT !.characters[index][field] = value]
    /\ op' = [name |-> "updateCharacter"]
    /\ UNCHANGED <<impl, characters, monsters, result, helperVars, storeVars, lastSaved, memo,
                   peerVars>>

Part001_addMonster ==
    /\ impl = "Part001"
    /\ mounted
    /\ Len(data.monsters) < MaxMonsters
    /\ data' = [data EXCEPT !.monsters =
                    Append(@, [hitDice |-> 1, modifier |-> 0, count |-> 1])]
    /\ op' = [name |-> "addMonster"]
    /\ UNCHANGED <<impl, characters, monsters, result, helperVars, storeVars, lastSaved, memo,
                   peerVars>>

Part001_removeMonster(index) ==
    /\ impl = "Part001"
    /\ mounted
    /\ index \in 1..Len(data.monsters)
    /\ IF Len(data.monsters) > 1
       THEN /\ data' = [data EXCEPT !.monsters = RemoveAt(@, index)]
            /\ op' = [name |-> "removeMonster", removed |-> TRUE]
       ELSE /\ data' = data
            /\ op' = [name |-> "removeMonster", removed |-> FALSE]
    /\ UNCHANGED <<impl, characters, monsters, result, helperVars, storeVars, lastSaved, memo,
                   peerVars>>

\* field.onChange of a monster row's input
Part001_monsterChange(index, field, value) ==
    /\ impl = "Part001"
    /\ mounted
    /\ index \in 1..Len(data.monsters)
    /\ data' = [data EXCEPT !.monsters[index][field] = value]
    /\ op' = [name |-> "updateMonster"]
    /\ UNCHANGED <<impl, characters, monsters, result, helperVars, storeVars, lastSaved, memo,
                   peerVars>>

Part001_resetForm ==
    /\ impl = "Part001"
    /\ mounted
    /\ data' = DefaultForm
    /\ characters' = <<>>
    /\ monsters' = <<>>
    /\ result' = Null
    /\ op' = [name |-> "reset"]
    /\ UNCHANGED <<impl, helperVars, storeVars, lastSaved, memo, peerVars>>

\* ---- Angular: the component and the service's storage methods -------------

\* the constructor: createForm(), then loadSavedCalculations(), whose
\* getSavedCalculations() runs JSON.parse outside any try
Cmp_constructor ==
    /\ impl = "Angular"
    /\ ~mounted
    /\ ~thrown
    /\ IF storage.text = "malformed"
       THEN /\ thrown' = TRUE
            /\ UNCHANGED <<mounted, savedCalculations>>
       ELSE /\ mounted' = TRUE
            /\ savedCalculations' = StoredCalculations
            /\ thrown' = FALSE
    /\ op' = [name |-> "loadSavedCalculations"]
    /\ UNCHANGED <<impl, data, characters, monsters, result, helperVars,
                   storage, now, lastSaved, memo, peerVars>>

Svc_newCalculation(chars, mons, res, t) ==
    [id |-> t, date |-> Date(t), characters |-> chars, monsters |-> mons, result |-> res]

\* faulty variant: without a result the stored list is still written back
Cmp_saveCalculation_writeBack ==
    /\ impl = "Angular"
    /\ mounted
    /\ IF result = Null
       THEN /\ op' = [name |-> "nothingToSave"]
            /\ storage' = JSON_stringify(StoredCalculations)
            /\ UNCHANGED <<savedCalculations, now, lastSaved>>
       ELSE /\ now < MaxSaves
            /\ Len(StoredCalculations) < MaxSaves
            /\ Len(savedCalculations) < MaxSaves
            /\ LET newCalculation ==
                       Svc_newCalculation(Cmp_characters(data), Cmp_monsters(data), result, now)
                   existingData == StoredCalculations \o <<newCalculation>>
               IN  /\ storage' = JSON_stringify(existingData)
                   /\ savedCalculations' = JSON_parse(storage')
                   /\ lastSaved' = newCalculation
            /\ now' \in {now, now + 1}
            /\ op' = [name |-> "save", id |-> now, found |-> storage.text]
    /\ UNCHANGED <<impl, data, characters, monsters, result, helperVars,
                   mounted, thrown, memo, peerVars>>

\* the store is an absent item or an array here: the constructor has parsed it
Cmp_saveCalculation ==
    /\ impl = "Angular"
    /\ mounted
    /\ IF result = Null
       THEN /\ op' = [name |-> "nothingToSave"]
            /\ UNCHANGED <<storage, savedCalculations, now, lastSaved>>
       ELSE /\ now < MaxSaves
            /\ Len(StoredCalculations) < MaxSaves
            /\ Len(savedCalculations) < MaxSaves
            /\ LET newCalculation ==
                       Svc_newCalculation(Cmp_characters(data), Cmp_monsters(data), result, now)
                   existingData == StoredCalculations \o <<newCalculation>>
               IN  /\ storage' = JSON_stringify(existingData)
                   /\ savedCalculations' = JSON_parse(storage')
                   /\ lastSaved' = newCalculation
            /\ now' \in {now, now + 1}
            /\ op' = [name |-> "save", id |-> now, found |-> storage.text]
    /\ UNCHANGED <<impl, data, characters, monsters, result, helperVars,
                   mounted, thrown, memo, peerVars>>

Cmp_loadCalculation(k) ==
    /\ impl = "Angular"
    /\ mounted
    /\ k \in 1..Len(savedCalculations)
    /\ LET saved == savedCalculations[k]
       IN  /\ data' = FormValue([characters |-> saved.characters,
                                 monsters |-> saved.monsters])
           /\ result' = saved.result
           /\ op' = [name |-> "load", id |-> saved.id]
    /\ UNCHANGED <<impl, characters, monsters, helperVars, storeVars, lastSaved, memo,
                   peerVars>>

Cmp_deleteCalculation(k) ==
    /\ impl = "Angular"
    /\ mounted
    /\ k \in 1..Len(savedCalculations)
    /\ LET id == savedCalculations[k].id
           filtered == WithoutId(StoredCalculations, id)
       IN  /\ storage' = JSON_stringify(filtered)
           /\ savedCalculations' = JSON_parse(storage')
           /\ op' = [name |-> "delete", id |-> id]
    /\ UNCHANGED <<impl, data, characters, monsters, result, helperVars,
                   mounted, thrown, now, lastSaved, memo, peerVars>>

\* deleteCalculation(id, event) called with any id, in the list or not
Cmp_deleteCalculationById(id) ==
    /\ impl = "Angular"
    /\ mounted
    /\ LET filtered == WithoutId(StoredCalculations, id)
       IN  /\ storage' = JSON_stringify(filtered)
           /\ savedCalculations' = JSON_parse(storage')
           /\ op' = [name |-> "delete", id |-> id]
    /\ UNCHANGED <<impl, data, characters, monsters, result, helperVars,
                   mounted, thrown, now, lastSaved, memo, peerVars>>

Cmp_addCharacter ==
    /\ impl = "Angular"
    /\ mounted
    /\ Len(data.characters) < MaxChars
    /\ data' = [data EXCEPT !.characters = Append(@, [hitDice |-> 1, modifier |-> 0])]
    /\ op' = [name |-> "addCharacter"]
    /\ UNCHANGED <<impl, characters, monsters, result, helperVars, storeVars, lastSaved, memo,
                   peerVars>>

Cmp_removeCharacter(index) ==
    /\ impl = "Angular"
    /\ mounted
    /\ index \in 1..Len(data.characters)
    /\ IF Len(data.characters) > 1
       THEN /\ data' = [data EXCEPT !.characters = RemoveAt(@, index)]
            /\ op' = [name |-> "removeCharacter", removed |-> TRUE]
       ELSE /\ data' = data
            /\ op' = [name |-> "removeCharacter", removed |-> FALSE]
    /\ UNCHANGED <<impl, characters, monsters, result, helperVars, storeVars, lastSaved, memo,
                   peerVars>>

\* a value typed into a control of a character row
Cmp_characterChange(index, field, value) ==
    /\ impl = "Angular"
    /\ mounted
    /\ index \in 1..Len(data.characters)
    /\ data' = [data EXCEPT !.characters[index][field] = value]
    /\ op' = [name |-> "updateCharacter"]
    /\ UNCHANGED <<impl, characters, monsters, result, helperVars, storeVars, lastSaved, memo,
                   peerVars>>

Cmp_addMonster ==
    /\ impl = "Angular"
    /\ mounted
    /\ Len(data.monsters) < MaxMonsters
    /\ data' = [data EXCEPT !.monsters =
                    Append(@, [hitDice |-> 1, modifier |-> 0, count |-> 1])]
    /\ op' = [name |-> "addMonster"]
    /\ UNCHANGED <<impl, characters, monsters, result, helperVars, storeVars, lastSaved, memo,
                   peerVars>>

Cmp_removeMonster(index) ==
    /\ impl = "Angular"
    /\ mounted
    /\ index \in 1..Len(data.monsters)
    /\ IF Len(data.monsters) > 1
       THEN /\ data' = [data EXCEPT !.monsters = RemoveAt(@, index)]
            /\ op' = [name |-> "removeMonster", removed |-> TRUE]
       ELSE /\ data' = data
            /\ op' = [name |-> "removeMonster", removed |-> FALSE]
    /\ UNCHANGED <<impl, characters, monsters, result, helperVars, storeVars, lastSaved, memo,
                   peerVars>>

\* a value typed into a control of a monster row
Cmp_monsterChange(index, field, value) ==
    /\ impl = "Angular"
    /\ mounted
    /\ index \in 1..Len(data.monsters)
    /\ data' = [data EXCEPT !.monsters[index][field] = value]
    /\ op' = [name |-> "updateMonster"]
    /\ UNCHANGED <<impl, characters, monsters, result, helperVars, storeVars, lastSaved, memo,
                   peerVars>>

Cmp_resetForm ==
    /\ impl = "Angular"
    /\ mounted
    /\ data' = DefaultForm
    /\ result' = Null
    /\ op' = [name |-> "reset"]
    /\ UNCHANGED <<impl, characters, monsters, helperVars, storeVars, lastSaved, memo,
                   peerVars>>

\* ---- the store session: calculate, save, load, delete, reset, reload ------

SessionStart ==
    /\ impl \in Impls
    /\ data = DefaultForm
    /\ characters = <<>>
    /\ monsters = <<>>
    /\ result = Null
    /\ characterIn = Null
    /\ monsterIn = Null
    /\ characterHD = Null
    /\ monsterHD = Null
    /\ factor = Null
    /\ savedCalculations = <<>>
    /\ mounted = (impl = "HomeA")
    /\ thrown = FALSE
    /\ now = 0
    /\ op = [name |-> "init"]
    /\ lastSaved = Null
    /\ memo = Null
    /\ peerSavedCalculations = <<>>
    /\ peerLastSaved = Null

\* the item under the key is absent or is not JSON when the page is first opened
StoreInit ==
    /\ SessionStart
    /\ storage \in {NoItem, Malformed}

StoreNext ==
    \/ Reload
    \/ HomeA_calculateXp
    \/ HomeA_saveCalculation
    \/ HomeA_loadSavedCalculations
    \/ \E k \in 1..MaxSaves : HomeA_loadCalculation(k)
    \/ \E k \in 1..MaxSaves : HomeA_deleteCalculation(k)
    \/ \E e \in TypedMonsterValues : HomeA_updateMonster(1, e[1], e[2])
    \/ HomeA_resetForm
    \/ HomeB_mount
    \/ HomeB_onSubmit
    \/ HomeB_saveCalculation
    \/ \E k \in 1..MaxSaves : HomeB_loadCalculation(k)
    \/ \E k \in 1..MaxSaves : HomeB_deleteCalculation(k)
    \/ \E e \in TypedMonsterValues : HomeB_monsterChange(1, e[1], e[2])
    \/ HomeB_resetForm
    \/ Part001_mount
    \/ Part001_onSubmit
    \/ Part001_saveCalculation
    \/ \E k \in 1..MaxSaves : Part001_loadCalculation(k)
    \/ \E k \in 1..MaxSaves : Part001_deleteCalculation(k)
    \/ \E e \in TypedMonsterValues : Part001_monsterChange(1, e[1], e[2])
    \/ Part001_resetForm
    \/ Cmp_constructor
    \/ Cmp_calculateXp
    \/ Cmp_saveCalculation
    \/ \E k \in 1..MaxSaves : Cmp_loadCalculation(k)
    \/ \E k \in 1..MaxSaves : Cmp_deleteCalculation(k)
    \/ \E id \in 0..MaxSaves : Cmp_deleteCalculationById(id)
    \/ \E e \in TypedMonsterValues : Cmp_monsterChange(1, e[1], e[2])
    \/ Cmp_resetForm

SpecStore == StoreInit /\ [][StoreNext]_vars

\* ---- the form session: add, remove, edit, reset, load ----------------------

\* the forms an earlier session has calculated and saved
StoredFormValues ==
    {[characters |-> [i \in 1..n |-> [hitDice |-> 2, modifier |-> 0]],
      monsters |-> [j \in 1..m |-> [hitDice |-> 1, modifier |-> 0, count |-> 2]]] :
        n \in 1..MaxChars, m \in 1..MaxMonsters}

\* the record the build's saveCalculation wrote for such a form
StoredRecord(build, f) ==
    CASE build = "HomeA" ->
           HomeA_newSavedCalculation(f.characters, f.monsters,
                                     HomeA_newResult(f.characters, f.monsters), -1)
      [] build = "HomeB" ->
           HomeB_newSavedCalculation(HomeB_newCharacters(f), HomeB_newMonsters(f),
                                     HomeB_result(HomeB_newCharacters(f), HomeB_newMonsters(f)),
                                     -1)
      [] build = "Part001" ->
           Part001_newSavedCalculation(Part001_newCharacters(f), Part001_newMonsters(f),
                                       Part001_result(Part001_newCharacters(f),
                                                      Part001_newMonsters(f)),
                                       -1)
      [] build = "Angular" ->
           Svc_newCalculation(Cmp_characters(f), Cmp_monsters(f),
                              Svc_calculateXp(Cmp_characters(f), Cmp_monsters(f)), -1)

\* the store is empty or holds one record, with at least one character and one
\* monster group
FormInit ==
    /\ SessionStart
    /\ storage \in {NoItem} \cup
                   {JSON_stringify(<<StoredRecord(impl, f)>>) : f \in StoredFormValues}

FormNext ==
    \/ HomeA_loadSavedCalculations
    \/ \E k \in 1..MaxSaves : HomeA_loadCalculation(k)
    \/ HomeA_addCharacter
    \/ \E index \in 1..MaxChars : HomeA_removeCharacter(index)
    \/ \E index \in 1..MaxChars, e \in TypedCharacterValues :
          HomeA_updateCharacter(index, e[1], e[2])
    \/ HomeA_addMonster
    \/ \E index \in 1..MaxMonsters : HomeA_removeMonster(index)
    \/ HomeA_resetForm
    \/ HomeB_mount
    \/ \E k \in 1..MaxSaves : HomeB_loadCalculation(k)
    \/ HomeB_addCharacter
    \/ \E index \in 1..MaxChars : HomeB_removeCharacter(index)
    \/ \E index \in 1..MaxChars, e \in TypedCharacterValues :
          HomeB_characterChange(index, e[1], e[2])
    \/ HomeB_addMonster
    \/ \E index \in 1..MaxMonsters : HomeB_removeMonster(index)
    \/ HomeB_resetForm
    \/ Part001_mount
    \/ \E k \in 1..MaxSaves : Part001_loadCalculation(k)
    \/ Part001_addCharacter
    \/ \E index \in 1..MaxChars : Part001_removeCharacter(index)
    \/ \E index \in 1..MaxChars, e \in TypedCharacterValues :
          Part001_characterChange(index, e[1], e[2])
    \/ Part001_addMonster
    \/ \E index \in 1..MaxMonsters : Part001_removeMonster(index)
    \/ Part001_resetForm
    \/ Cmp_constructor
    \/ \E k \in 1..MaxSaves : Cmp_loadCalculation(k)
    \/ Cmp_addCharacter
    \/ \E index \in 1..MaxChars : Cmp_removeCharacter(index)
    \/ \E index \in 1..MaxChars, e \in TypedCharacterValues :
          Cmp_characterChange(index, e[1], e[2])
    \/ Cmp_addMonster
    \/ \E index \in 1..MaxMonsters : Cmp_removeMonster(index)
    \/ Cmp_resetForm

SpecForm == FormInit /\ [][FormNext]_vars

---------------------------------------------------------------------------
(* Two pages on one store: a second page of the same build, opened on the   *)
(* empty store, has calculated a form of its own and saves and deletes      *)
(* under the same storage key.  localStorage calls are synchronous, so the  *)
(* handlers of the two pages interleave as wholes.                          *)

\* the form the second page has calculated
SecondPageForm ==
    [characters |-> <<[hitDice |-> 1, modifier |-> 0]>>,
     monsters |-> <<[hitDice |-> 1, modifier |-> 0, count |-> 2]>>]

\* the result the second page's calculation has left on it
HomeA_secondPageResult ==
    HomeA_newResult(SecondPageForm.characters, SecondPageForm.monsters)

HomeB_secondPageResult ==
    HomeB_result(HomeB_newCharacters(SecondPageForm), HomeB_newMonsters(SecondPageForm))

Part001_secondPageResult ==
    Part001_result(Part001_newCharacters(SecondPageForm),
                   Part001_newMonsters(SecondPageForm))

Cmp_secondPageResult ==
    Svc_calculateXp(Cmp_characters(SecondPageForm), Cmp_monsters(SecondPageForm))

HomeA_saveCalculation_secondPage ==
    /\ impl = "HomeA"
    /\ now < MaxSaves
    /\ Len(StoredCalculations) < MaxSaves
    /\ Len(peerSavedCalculations) < MaxSaves
    /\ \E newSavedCalculation \in
               {HomeA_newSavedCalculation(
                    SecondPageForm.characters, SecondPageForm.monsters,
                    HomeA_secondPageResult, now)} :
          /\ peerSavedCalculations' = StoredCalculations \o <<newSavedCalculation>>
          /\ storage' = JSON_stringify(peerSavedCalculations')
          /\ peerLastSaved' = newSavedCalculation
    /\ now' \in {now, now + 1}
    /\ op' = [name |-> "secondPageSave", id |-> now]
    /\ UNCHANGED <<calcVars, helperVars, savedCalculations, mounted, thrown, lastSaved, memo>>

HomeA_deleteCalculation_secondPage(k) ==
    /\ impl = "HomeA"
    /\ k \in 1..Len(peerSavedCalculations)
    /\ LET id == peerSavedCalculations[k].id
           updatedCalculations == WithoutId(peerSavedCalculations, id)
       IN  /\ storage' = JSON_stringify(updatedCalculations)
           /\ peerSavedCalculations' = updatedCalculations
           /\ op' = [name |-> "secondPageDelete", id |-> id]
    /\ UNCHANGED <<calcVars, helperVars, savedCalculations, mounted, thrown, now,
                   lastSaved, memo, peerLastSaved>>

HomeB_saveCalculation_secondPage ==
    /\ impl = "HomeB"
    /\ now < MaxSaves
    /\ Len(StoredCalculations) < MaxSaves
    /\ Len(peerSavedCalculations) < MaxSaves
    /\ \E newSavedCalculation \in
               {HomeB_newSavedCalculation(
                    HomeB_newCharacters(SecondPageForm), HomeB_newMonsters(SecondPageForm),
                    HomeB_secondPageResult, now)} :
          /\ peerSavedCalculations' = peerSavedCalculations \o <<newSavedCalculation>>
          /\ storage' = JSON_stringify(peerSavedCalculations')
          /\ peerLastSaved' = newSavedCalculation
    /\ now' \in {now, now + 1}
    /\ op' = [name |-> "secondPageSave", id |-> now]
    /\ UNCHANGED <<calcVars, helperVars, savedCalculations, mounted, thrown, lastSaved, memo>>

HomeB_deleteCalculation_secondPage(k) ==
    /\ impl = "HomeB"
    /\ k \in 1..Len(peerSavedCalculations)
    /\ LET id == peerSavedCalculations[k].id
           updatedSaved == WithoutId(peerSavedCalculations, id)
       IN  /\ peerSavedCalculations' = updatedSaved
           /\ storage' = JSON_stringify(updatedSaved)
           /\ op' = [name |-> "secondPageDelete", id |-> id]
    /\ UNCHANGED <<calcVars, helperVars, savedCalculations, mounted, thrown, now,
                   lastSaved, memo, peerLastSaved>>

Part001_saveCalculation_secondPage ==
    /\ impl = "Part001"
    /\ now < MaxSaves
    /\ Len(StoredCalculations) < MaxSaves
    /\ Len(peerSavedCalculations) < MaxSaves
    /\ \E newSavedCalculation \in
               {Part001_newSavedCalculation(
                    Part001_newCharacters(SecondPageForm), Part001_newMonsters(SecondPageForm),
                    Part001_secondPageResult, now)} :
          /\ peerSavedCalculations' = peerSavedCalculations \o <<newSavedCalculation>>
          /\ storage' = JSON_stringify(peerSavedCalculations')
          /\ peerLastSaved' = newSavedCalculation
    /\ now' \in {now, now + 1}
    /\ op' = [name |-> "secondPageSave", id |-> now]
    /\ UNCHANGED <<calcVars, helperVars, savedCalculations, mounted, thrown, lastSaved, memo>>

Part001_deleteCalculation_secondPage(k) ==
    /\ impl = "Part001"
    /\ k \in 1..Len(peerSavedCalculations)
    /\ LET id == peerSavedCalculations[k].id
           updatedSaved == WithoutId(peerSavedCalculations, id)
       IN  /\ peerSavedCalculations' = updatedSaved
           /\ storage' = JSON_stringify(updatedSaved)
           /\ op' = [name |-> "secondPageDelete", id |-> id]
    /\ UNCHANGED <<calcVars, helperVars, savedCalculations, mounted, thrown, now,
                   lastSaved, memo, peerLastSaved>>

Cmp_saveCalculation_secondPage ==
    /\ impl = "Angular"
    /\ now < MaxSaves
    /\ Len(StoredCalculations) < MaxSaves
    /\ Len(peerSavedCalculations) < MaxSaves
    /\ \E newCalculation \in
               {Svc_newCalculation(
                    Cmp_characters(SecondPageForm), Cmp_monsters(SecondPageForm),
                    Cmp_secondPageResult, now)} :
          /\ storage' = JSON_stringify(StoredCalculations \o <<newCalculation>>)
          /\ peerSavedCalculations' = JSON_parse(storage')
          /\ peerLastSaved' = newCalculation
    /\ now' \in {now, now + 1}
    /\ op' = [name |-> "secondPageSave", id |-> now]
    /\ UNCHANGED <<calcVars, helperVars, savedCalculations, mounted, thrown, lastSaved, memo>>

Cmp_deleteCalculation_secondPage(k) ==
    /\ impl = "Angular"
    /\ k \in 1..Len(peerSavedCalculations)
    /\ LET id == peerSavedCalculations[k].id
           filtered == WithoutId(StoredCalculations, id)
       IN  /\ storage' = JSON_stringify(filtered)
           /\ peerSavedCalculations' = JSON_parse(storage')
           /\ op' = [name |-> "secondPageDelete", id |-> id]
    /\ UNCHANGED <<calcVars, helperVars, savedCalculations, mounted, thrown, now,
                   lastSaved, memo, peerLastSaved>>

\* both pages have been opened on an empty store
SharedInit ==
    /\ SessionStart
    /\ storage = NoItem

SharedNext ==
    \/ HomeA_calculateXp
    \/ HomeA_saveCalculation
    \/ HomeA_loadSavedCalculations
    \/ \E k \in 1..MaxSaves : HomeA_deleteCalculation(k)
    \/ HomeA_saveCalculation_secondPage
    \/ \E k \in 1..MaxSaves : HomeA_deleteCalculation_secondPage(k)
    \/ HomeB_mount
    \/ HomeB_onSubmit
    \/ HomeB_saveCalculation
    \/ \E k \in 1..MaxSaves : HomeB_deleteCalculation(k)
    \/ HomeB_saveCalculation_secondPage
    \/ \E k \in 1..MaxSaves : HomeB_deleteCalculation_secondPage(k)
    \/ Part001_mount
    \/ Part001_onSubmit
    \/ Part001_saveCalculation
    \/ \E k \in 1..MaxSaves : Part001_deleteCalculation(k)
    \/ Part001_saveCalculation_secondPage
    \/ \E k \in 1..MaxSaves : Part001_deleteCalculation_secondPage(k)
    \/ Cmp_constructor
    \/ Cmp_calculateXp
    \/ Cmp_saveCalculation
    \/ \E k \in 1..MaxSaves : Cmp_deleteCalculation(k)
    \/ Cmp_saveCalculation_secondPage
    \/ \E k \in 1..MaxSaves : Cmp_deleteCalculation_secondPage(k)

SpecShared == SharedInit /\ [][SharedNext]_vars

---------------------------------------------------------------------------
(* Properties.                                                             *)

\* hitDice + modifier * 0.25, written out in quarters
QuarterSteps(in) == Rat(4 * in.hitDice + in.modifier, 4)

RMin(a, b) == IF RLe(a, b) THEN a ELSE b

\* the input meets the data model: lists non-empty, hit dice >= 1, count >= 1
ValidInput(d) ==
    /\ Len(d.characters) >= 1
    /\ Len(d.monsters) >= 1
    /\ \A i \in 1..Len(d.characters) : d.characters[i].hitDice >= 1
    /\ \A j \in 1..Len(d.monsters) : d.monsters[j].hitDice >= 1 /\ d.monsters[j].count >= 1

\* every character and every monster group has positive effective hit dice
PositiveLevels(d) ==
    /\ \A i \in 1..Len(d.characters) : 4 * d.characters[i].hitDice + d.characters[i].modifier > 0
    /\ \A j \in 1..Len(d.monsters) : 4 * d.monsters[j].hitDice + d.monsters[j].modifier > 0

\* the per-character breakdown exists in the form-driven React builds only
HasBreakdown == impl \in {"HomeB", "Part001"} /\ result # Null

SumAdjustedXp(characterXp) ==
    SumSeq([i \in 1..Len(characterXp) |-> characterXp[i].adjustedXp])

\* the first index, in input order, of a character with the lowest effective hit dice
FirstLowest(characterXp) ==
    CHOOSE i \in 1..Len(characterXp) :
        /\ \A k \in 1..Len(characterXp) :
              RLe(characterXp[i].effectiveHitDice, characterXp[k].effectiveHitDice)
        /\ \A k \in 1..(i - 1) :
              RLt(characterXp[i].effectiveHitDice, characterXp[k].effectiveHitDice)

\* C1: for every calculation with at least one character and one monster group
\* (hit dice >= 1, count >= 1, any signed integer modifier) the adjustedXp of
\* all entries of result.characterXp add up to result.totalXp exactly.
\* Stated on the inputs whose effective hit dice are all positive, where the
\* claim already fails.
C1_SumEqualsTotalXp ==
    (HasBreakdown /\ PositiveLevels(data)) =>
        SumAdjustedXp(result.characterXp) = result.totalXp

\* C2: the remainder (totalXp minus the sum of the floored per-character XP) is
\* added in full to the first character with the lowest effective hit dice, and
\* no other character's adjustedXp is changed by the remainder step.
C2_RemainderToFirstLowest ==
    (impl = "Part001" /\ result # Null) =>
        LET floored == Part001_flooredCharacterXp(characters, monsters, result.xpPerCharacter)
            remainder == RSub(result.totalXp, SumAdjustedXp(floored))
            lowest == FirstLowest(floored)
        IN  \A i \in 1..Len(floored) :
               result.characterXp[i].adjustedXp =
                   IF i = lowest THEN RAdd(floored[i].adjustedXp, remainder)
                   ELSE floored[i].adjustedXp

\* C3: in every build the effective hit dice of a character and of a monster is
\* hitDice + modifier * 0.25, and is hitDice itself when the modifier is 0.
C3_EffectiveHitDice ==
    characterHD # Null =>
        /\ characterHD = QuarterSteps(characterIn)
        /\ monsterHD = QuarterSteps(monsterIn)
        /\ characterIn.modifier = 0 => characterHD = Num(characterIn.hitDice)
        /\ monsterIn.modifier = 0 => monsterHD = Num(monsterIn.hitDice)

\* C3 witness: the Angular service has computed a fractional character level and a
\* whole monster level.
C3_Witness ==
    /\ impl = "Angular"
    /\ characterHD # Null
    /\ characterIn.modifier = -3
    /\ monsterIn.modifier = 0
    /\ monsterHD = Num(monsterIn.hitDice)

\* C4: for positive character and monster effective hit dice the adjustment factor
\* applied is min(1, monsterHD / characterHD).
C4_ContinuousRatio ==
    (factor # Null /\ RLt(Num(0), characterHD) /\ RLt(Num(0), monsterHD)) =>
        factor = RMin(Num(1), RDiv(monsterHD, characterHD))

\* C5: for every pair of effective hit dice the form schema admits (hit dice >= 1,
\* any modifier) the adjustment factor is greater than 0 and at most 1.
C5_FactorInUnitInterval ==
    (impl = "HomeB" /\ result # Null) =>
        \A i \in 1..Len(result.characterXp) :
            \A j \in 1..Len(result.characterXp[i].monsterContributions) :
                LET f == result.characterXp[i].monsterContributions[j].adjustmentFactor
                IN  RLt(Num(0), f) /\ RLe(f, Num(1))

\* C6: in every build the adjustment factor is exactly 1 whenever the monster's
\* effective level is at or above the character's; in particular f(x, x) = 1.
C6_FullCreditAtOrAbove ==
    (factor # Null /\ RLe(characterHD, monsterHD)) => factor = Num(1)

\* C6 witness: the Angular service has been applied to equal positive levels.
C6_Witness ==
    /\ impl = "Angular"
    /\ factor # Null
    /\ characterHD = monsterHD
    /\ RLt(Num(0), characterHD)
    /\ characterIn.modifier # 0

\* C7: when the monster's effective level is strictly lower than the character's,
\* the adjustment factor returned is strictly less than 1.  Stated on positive
\* levels, where the claim already fails.
C7_WeakerMonsterReduced ==
    (factor # Null /\ RLt(Num(0), monsterHD) /\ RLt(monsterHD, characterHD)) =>
        RLt(factor, Num(1))

\* C8: for a fixed character level x > 0 the adjustment factor is monotonically
\* non-decreasing in the monster level, quarter steps included: from one monster
\* to a monster of the same or a higher level the factor never goes down.  Stated
\* on positive monster levels, where the claim already fails.
C8_MonotoneInMonsterLevel ==
    [][(/\ factor # Null
        /\ RLt(Num(0), characterHD)
        /\ RLt(Num(0), monsterHD)
        /\ RLe(monsterHD, monsterHD'))
          => RLe(factor, factor')]_vars

\* C9: a calculation invoked with an empty character list or an empty monster
\* list is rejected and produces no CalculationResult.
C9_EmptyListRejected ==
    (Len(data.characters) = 0 \/ Len(data.monsters) = 0) => result = Null

\* C10: for every valid input result.totalXp is 100 times the sum over the monster
\* groups of effective hit dice times count, with no level adjustment applied.
\* Stated on the valid inputs whose effective hit dice are all positive, where
\* the claim already fails.
C10_TotalXpIsBaseRate ==
    (result # Null /\ ValidInput(data) /\ PositiveLevels(data)) =>
        result.totalXp =
            RMul(Num(100),
                 SumSeq([j \in 1..Len(data.monsters) |->
                           RMul(QuarterSteps(data.monsters[j]), Num(data.monsters[j].count))]))

\* C11: for every valid input result.xpPerCharacter is result.totalXp divided by
\* the number of characters, without rounding.  Stated on the valid inputs whose
\* effective hit dice are all positive, where the claim already fails.
C11_XpPerCharacterUnrounded ==
    (result # Null /\ ValidInput(data) /\ PositiveLevels(data)) =>
        result.xpPerCharacter = RDiv(result.totalXp, Num(Len(data.characters)))

\* C12: for each character and each monster group the recorded contribution has
\* the unrounded base share (effective hit dice x count x 100) / |characters| and
\* the adjusted contribution floor(base share x adjustment factor of the pair).
\* Stated on the inputs whose effective hit dice are all positive, where the
\* claim already fails.
C12_ContributionShares ==
    (HasBreakdown /\ PositiveLevels(data)) =>
        \A i \in 1..Len(result.characterXp) :
            \A j \in 1..Len(result.characterXp[i].monsterContributions) :
                LET contribution == result.characterXp[i].monsterContributions[j]
                    characterLevel == QuarterSteps(data.characters[i])
                    monsterLevel == QuarterSteps(data.monsters[j])
                    baseShare == RDiv(RMul(RMul(monsterLevel, Num(data.monsters[j].count)),
                                           Num(100)),
                                      Num(Len(data.characters)))
                    adjustment == RMin(Num(1), RDiv(monsterLevel, characterLevel))
                IN  /\ contribution.baseXp = baseShare
                    /\ contribution.adjustedXp = Floor(RMul(baseShare, adjustment))

\* C13: the adjustedXp of every character that does not receive the remainder
\* (every character but the first one with the lowest effective hit dice) is
\* the sum of the adjustedXp of its monsterContributions.  Stated on the inputs
\* whose effective hit dice are all positive, where the claim already fails.
C13_AdjustedXpIsSumOfContributions ==
    (HasBreakdown /\ PositiveLevels(data)) =>
        \A i \in 1..Len(result.characterXp) :
            i # FirstLowest(result.characterXp) =>
                result.characterXp[i].adjustedXp =
                    SumSeq([j \in 1..Len(result.characterXp[i].monsterContributions) |->
                              result.characterXp[i].monsterContributions[j].adjustedXp])

\* the character and monster records the page is working on: the state lists of
\* the React builds, the lists the Angular component builds from its form
WorkingCharacters ==
    CASE impl = "HomeA" -> data.characters
      [] impl \in {"HomeB", "Part001"} -> characters
      [] impl = "Angular" -> Cmp_characters(data)

WorkingMonsters ==
    CASE impl = "HomeA" -> data.monsters
      [] impl \in {"HomeB", "Part001"} -> monsters
      [] impl = "Angular" -> Cmp_monsters(data)

\* C14: saving the current calculation and then loading that saved record gives
\* working characters, monsters and a result identical to those that were saved;
\* the result is taken from the record, not computed again.
C14_SaveLoadRoundTrip ==
    (op.name = "load" /\ lastSaved # Null /\ op.id = lastSaved.id) =>
        /\ WorkingCharacters = lastSaved.characters
        /\ WorkingMonsters = lastSaved.monsters
        /\ result = lastSaved.result

\* C15: after loadCalculation(saved) the working character list, the working
\* monster list, the form and the result are exactly those of the saved record,
\* whatever they were before, and neither the list of saved calculations nor the
\* store has changed.
C15_LoadReplacesWorkingState ==
    [][op'.name = "load" =>
          \E k \in 1..Len(savedCalculations) :
              /\ savedCalculations[k].id = op'.id
              /\ WorkingCharacters' = savedCalculations[k].characters
              /\ WorkingMonsters' = savedCalculations[k].monsters
              /\ FormValue(data') = FormValue(savedCalculations[k])
              /\ result' = savedCalculations[k].result
              /\ savedCalculations' = savedCalculations
              /\ storage' = storage]_vars

\* C15 witness: the first of two saved records has been loaded over a page whose
\* monsters and result were those of the second.
C15_Witness ==
    /\ op.name = "load"
    /\ Len(savedCalculations) = 2
    /\ op.id = savedCalculations[1].id
    /\ result = savedCalculations[1].result
    /\ savedCalculations[2].result # result
    /\ savedCalculations[2].monsters # WorkingMonsters

\* C16: a saved calculation in the store stays there, with the same characters,
\* monsters and result, through every calculate, save, load, reset, reload and
\* delete of another identity; only a delete with its own identity removes it.
C16_StoredUntilDeleted ==
    [][\A i \in 1..Len(StoredCalculations) :
          \/ op'.name = "delete" /\ op'.id = StoredCalculations[i].id
          \/ \E j \in 1..Len(StoredCalculations') :
                StoredCalculations'[j] = StoredCalculations[i]]_vars

\* C16 witness: a record has been deleted and a record of another identity, saved
\* from a monster of level 0, is still in the store.
C16_Witness ==
    /\ op.name = "delete"
    /\ Len(StoredCalculations) = 1
    /\ StoredCalculations[1].id # op.id
    /\ StoredCalculations[1].monsters[1].modifier = -4

\* C17: when the text under the storage key is not JSON, reading the saved
\* calculations gives an empty list and no error reaches the caller.
C17_MalformedStoreReadsEmpty ==
    (op.name = "loadSavedCalculations" /\ storage.text = "malformed") =>
        (~thrown /\ savedCalculations = <<>>)

\* C18: a calculation from the same character and monster lists as an earlier
\* one gives the same result, whatever was calculated, saved, loaded or deleted
\* in between.
C18_SameInputSameResult ==
    (op.name = "calculate" /\ memo # Null /\ memo.input = FormValue(data)) =>
        result = memo.result

\* C18 witness: a calculation has run on the input of a calculation made before a
\* save, with a record in the store.
C18_Witness ==
    /\ op.name = "calculate"
    /\ memo # Null
    /\ memo.input = FormValue(data)
    /\ memo.at < now
    /\ Len(StoredCalculations) >= 1
    /\ result = memo.result

\* C19: running a calculation never changes the stored list of saved
\* calculations: the store after calculateXp / onSubmit is the store before it.
C19_CalculationLeavesStore ==
    [][op'.name = "calculate" => storage' = storage]_vars

\* C19 witness: a calculation has run while the store held two records.
C19_Witness ==
    /\ op.name = "calculate"
    /\ result # Null
    /\ Len(StoredCalculations) = 2

\* C20: through every add, remove, edit, reset and load from the initial form,
\* with every stored record holding at least one character and one monster
\* group, the character list and the monster list of the form hold at least one
\* entry each; removing the only entry of a list leaves the list as it was.
C20_ListsNeverEmpty ==
    [][/\ Len(data.characters) >= 1 /\ Len(data.monsters) >= 1
       /\ Len(data'.characters) >= 1 /\ Len(data'.monsters) >= 1
       /\ (op'.name = "removeCharacter" /\ Len(data.characters) = 1) =>
              data'.characters = data.characters
       /\ (op'.name = "removeMonster" /\ Len(data.monsters) = 1) =>
              data'.monsters = data.monsters]_vars

\* C20 witness: the only character of a loaded and edited form was to be removed
\* and is still there.
C20_Witness ==
    /\ op = [name |-> "removeCharacter", removed |-> FALSE]
    /\ Len(savedCalculations) = 1
    /\ Len(data.characters) = 1
    /\ data.characters[1].hitDice = 2
    /\ Len(data.monsters) = 2


\* the result the build calculates from the hit dice, modifiers and counts of f
ResultOf(build, f) ==
    CASE build = "HomeA" -> HomeA_newResult(f.characters, f.monsters)
      [] build = "HomeB" -> HomeB_result(HomeB_newCharacters(f), HomeB_newMonsters(f))
      [] build = "Part001" ->
           Part001_result(Part001_newCharacters(f), Part001_newMonsters(f))
      [] build = "Angular" -> Svc_calculateXp(Cmp_characters(f), Cmp_monsters(f))

\* C21: every saved calculation holds an input and a result that belong together:
\* its result is the result of the calculation on the characters and monsters of
\* the same record, also when the form was edited between calculating and saving.
C21_SavedPairBelongsTogether ==
    \A k \in 1..Len(StoredCalculations) :
        StoredCalculations[k].result =
            JsonResult(ResultOf(impl, FormValue(StoredCalculations[k])))


C23_SaveAppendsOne ==
    [][op'.name = "save" =>
          StoredCalculations' =
              StoredCalculations \o <<JsonSavedCalculation(lastSaved')>>]_vars

\* C23 witness: a second record has been saved behind a first one that was
\* calculated from another monster.
C23_Witness ==
    /\ op.name = "save"
    /\ Len(StoredCalculations) = 2
    /\ StoredCalculations[2] = JsonSavedCalculation(lastSaved)
    /\ StoredCalculations[1].monsters # StoredCalculations[2].monsters
    /\ StoredCalculations[1].result # StoredCalculations[2].result


\* C24: saveCalculation invoked while there is no result (before any calculation,
\* or after a reset) does nothing: neither the stored list nor the list of saved
\* calculations in memory changes.
C24_SaveWithoutResultIsNoOp ==
    [][(result = Null /\ op'.name \in {"save", "nothingToSave"}) =>
          /\ op'.name = "nothingToSave"
          /\ storage' = storage
          /\ savedCalculations' = savedCalculations]_vars

\* C24 witness: saveCalculation has been invoked on the form that a reset left,
\* with one saved calculation in memory and in the store.
C24_Witness ==
    /\ op.name = "nothingToSave"
    /\ result = Null
    /\ data = DefaultForm
    /\ lastSaved # Null
    /\ Len(savedCalculations) = 1
    /\ StoredCalculations = <<JsonSavedCalculation(lastSaved)>>


\* C25: in the Angular component, calculateXp called while the form is invalid
\* leaves the current result as it was, with no new or partial result, and leaves
\* the saved calculations as they were.
C25_InvalidFormKeepsResult ==
    [][(impl = "Angular" /\ ~Cmp_formValid(data)
            /\ op'.name \in {"calculate", "formInvalid"}) =>
          /\ op'.name = "formInvalid"
          /\ result' = result
          /\ savedCalculations' = savedCalculations
          /\ storage' = storage]_vars

\* C25 witness: calculateXp has been called on a form with a monster modifier
\* below -3 while the page showed a result and held a saved calculation.
C25_Witness ==
    /\ impl = "Angular"
    /\ op.name = "formInvalid"
    /\ data.monsters[1].modifier < -3
    /\ result # Null
    /\ Len(savedCalculations) = 1
    /\ StoredCalculations = savedCalculations


\* C26: the records in the stored list have pairwise distinct ids after every
\* sequence of saves and deletes, so that a delete by identity removes at most
\* one record.
C26_DistinctIds ==
    \A j, k \in 1..Len(StoredCalculations) :
        StoredCalculations[j].id = StoredCalculations[k].id => j = k


\* C28: in one page, after every completed save or delete the list of saved
\* calculations in memory holds the same records in the same order as the list
\* under the storage key, also when the text that was under the key when the
\* page was opened could not be parsed.
C28_MemoryMatchesStore ==
    op.name \in {"save", "delete"} => storage = JSON_stringify(savedCalculations)

\* C28 witness: a calculation has been saved over a text that was not JSON, and
\* the list in memory and the stored list hold that one record.
C28_Witness ==
    /\ op.name = "save"
    /\ op.found = "malformed"
    /\ Len(savedCalculations) = 1
    /\ savedCalculations[1].id = op.id
    /\ storage = JSON_stringify(savedCalculations)


\* the stored list holds the JSON of the record
Holds(calc) ==
    \E k \in 1..Len(StoredCalculations) :
        StoredCalculations[k] = JsonSavedCalculation(calc)

\* C27: when two pages share the storage key and interleave their saves and
\* deletes, a save or delete of one page never removes a record that the other
\* page saved, unless it is a delete with that record's id.
C27_SharedStoreKeepsRecords ==
    [][/\ (/\ op'.name \in {"save", "delete"}
           /\ peerLastSaved # Null
           /\ Holds(peerLastSaved)
           /\ ~(op'.name = "delete" /\ op'.id = peerLastSaved.id))
          => Holds(peerLastSaved)'
       /\ (/\ op'.name \in {"secondPageSave", "secondPageDelete"}
           /\ lastSaved # Null
           /\ Holds(lastSaved)
           /\ ~(op'.name = "secondPageDelete" /\ op'.id = lastSaved.id))
          => Holds(lastSaved)']_vars


\* a JavaScript number that is a whole number
IsInteger(a) == IsFinite(a) /\ a.d = 1

\* the per-character XP before any remainder is handed out
FlooredCharacterXp ==
    IF impl = "Part001"
    THEN Part001_flooredCharacterXp(characters, monsters, result.xpPerCharacter)
    ELSE result.characterXp

\* C29: for every input whose characters and monster groups all have positive
\* effective hit dice, the remainder (totalXp minus the sum of the floored
\* per-character XP) is not negative, and the final adjustedXp of every character
\* is a non-negative whole number.
C29_RemainderAndXpNonNegative ==
    (HasBreakdown /\ PositiveLevels(data)) =>
        /\ RLe(Num(0), RSub(result.totalXp, SumAdjustedXp(FlooredCharacterXp)))
        /\ \A i \in 1..Len(result.characterXp) :
              /\ IsInteger(result.characterXp[i].adjustedXp)
              /\ RLe(Num(0), result.characterXp[i].adjustedXp)

\* C29 witness: two characters of different levels have shared the XP of a
\* monster of a fractional level, and flooring has left a positive remainder.
C29_Witness ==
    /\ HasBreakdown
    /\ PositiveLevels(data)
    /\ Len(result.characterXp) = 2
    /\ result.characterXp[1].effectiveHitDice # result.characterXp[2].effectiveHitDice
    /\ ~IsInteger(result.xpPerCharacter)
    /\ RLt(Num(0), RSub(result.totalXp, SumAdjustedXp(FlooredCharacterXp)))
    /\ \A i \in 1..2 : RLt(Num(0), result.characterXp[i].adjustedXp)


\* the sum of the adjusted XP of all monster groups, before it is floored
Svc_totalMonsterXp ==
    Svc_totals(Cmp_monsters(data),
               RDiv(SumSeq([i \in 1..Len(data.characters) |->
                              Cmp_characters(data)[i].effectiveHitDice]),
                    Num(Len(data.characters))),
               Len(data.monsters)).totalMonsterXp

\* C30: in the Angular service, for every non-empty input with positive effective
\* hit dice, xpPerCharacter times the number of characters is at most totalXp,
\* and totalXp is at most 100 times totalMonsterHitDice; totalXp and
\* xpPerCharacter are each the floor of a share of the adjusted XP sum.
C30_FlooredTotalsOrdered ==
    (/\ impl = "Angular"
     /\ result # Null
     /\ Len(data.characters) >= 1 /\ Len(data.monsters) >= 1
     /\ PositiveLevels(data)) =>
        /\ RLe(RMul(result.xpPerCharacter, Num(Len(data.characters))), result.totalXp)
        /\ RLe(result.totalXp, RMul(Num(100), result.totalMonsterHitDice))
        /\ result.totalXp = Floor(Svc_totalMonsterXp)
        /\ result.xpPerCharacter =
               Floor(RDiv(Svc_totalMonsterXp, Num(Len(data.characters))))

\* C30 witness: two characters have shared the XP of monsters below their level,
\* and both inequalities are strict.
C30_Witness ==
    /\ impl = "Angular"
    /\ result # Null
    /\ Len(data.characters) = 2 /\ Len(data.monsters) >= 1
    /\ PositiveLevels(data)
    /\ RLt(RMul(result.xpPerCharacter, Num(2)), result.totalXp)
    /\ RLt(result.totalXp, RMul(Num(100), result.totalMonsterHitDice))

=============================================================================
